---------------------------- MODULE Spec2Model ----------------------------
(***************************************************************************)
(* Dashboard "Seperlima": the loaders of db.py (memoized by st.cache_data),*)
(* the chart functions of charts.py and the five pages of app.py.          *)
(*                                                                         *)
(* A DataFrame is a record [ref, cols, rows]: ref names the object (two    *)
(* DataFrames with the same ref are the same object, so a column assigned  *)
(* through one is seen through the other), cols is the set of column       *)
(* names and rows the sequence of rows, each a function from cols.         *)
(* A nullable text cell is a string, NULL standing for SQL NULL / NaN; a   *)
(* nullable number is <<>> (null) or <<n>>.  A date is the integer yymmdd, *)
(* a timestamp the integer yymmddhh, so integer order is calendar order.   *)
(***************************************************************************)
EXTENDS Integers, Sequences, FiniteSets, TLC

VARIABLES
    store,      \* the MySQL database: what each query would return now
    cache,      \* st.cache_data: loader -> <<>> (no entry) or <<DataFrame>>
    openConns,  \* connections opened by get_connection() and not closed
    render,     \* the last page render (script run) and what it showed
    runs,       \* script runs of the session so far
    call        \* the last direct call of a chart function

vars == <<store, cache, openConns, render, runs, call>>

-----------------------------------------------------------------------------
(* Bounds of the model *)

MaxRows == 2        \* rows of the table of a page run over every table
MaxVer == 1         \* store snapshots 0..MaxVer in the application specification
MaxConns == 1       \* leaked connections after which no more pages are rendered
MaxRuns == 3        \* script runs of one session of the application
MaxChanged == 1     \* widgets moved off their default in one run of the application
MaxChartRows == 2   \* rows of a table handed directly to a chart function
MaxTitles == 6      \* distinct titles of a loan table handed to the top five
MaxPerTitle == 2    \* loans of one title in such a table
MaxLoans == 2       \* rows of the table peminjaman of the database
MaxLinks == 2       \* rows of the table buku_pengarang of the database

-----------------------------------------------------------------------------
(* Values *)

NULL == "NULL"
Semua == "(Semua)"

\* Python's order on the strings of the model (code point order).
StrOrder ==
    << "Akuntansi", "Algoritma", "Basis Data", "Dipinjam", "Dosen", "Ekonomi",
       "Fiksi", "Fisika", "Informatika", "Jaringan", "Kalkulus", "Kimia",
       "Logika", "Mahasiswa", "Manajemen", "Sains", "Sedang dipinjam",
       "Selesai", "Statistika", "Teknik", "Tersedia" >>

Rank(s) == CHOOSE i \in 1..Len(StrOrder) : StrOrder[i] = s

Range(s) == {s[i] : i \in 1..Len(s)}

\* sorted(S) for a set of strings.
Sorted(S) ==
    [k \in 1..Cardinality(S) |->
        CHOOSE x \in S : Cardinality({y \in S : Rank(y) < Rank(x)}) = k - 1]

Dates == {240130, 240131, 240201}
Hours == {0, 13}

\* Series.dt.date: the calendar day of a timestamp.
DtDate(ts) == ts \div 100

\* Series.dt.month in place of the period: the month without its year.
MonthOfYear(ts) == (ts \div 10000) % 100

\* Series.dt.to_period("M").astype(str): the calendar month of a timestamp,
\* the year and the month in it.
ToPeriodM(ts) == ts \div 10000

-----------------------------------------------------------------------------
(* pandas *)

EmptyTable == [ref |-> "none", cols |-> {}, rows |-> <<>>]

IsEmpty(df) == Len(df.rows) = 0

\* An assignment of names, df2 = df, in place of a copy: the same object.
Alias(df, site) == df

\* DataFrame.copy(): a new object with the same contents.
Copy(df, site) == [df EXCEPT !.ref = site]

\* df[mask], mask a boolean for each row: a new object holding the rows
\* whose boolean is TRUE.
Where(df, mask, site) ==
    LET idx == SelectSeq([i \in 1..Len(df.rows) |-> i], LAMBDA i : mask[i])
    IN  [ref |-> site, cols |-> df.cols,
         rows |-> [k \in 1..Len(idx) |-> df.rows[idx[k]]]]

\* df[col] = values, a value for each row: assignment of a column, in place.
SetCol(df, col, values) ==
    [df EXCEPT !.cols = @ \cup {col},
               !.rows = [i \in 1..Len(@) |->
                            [c \in df.cols \cup {col} |->
                                IF c = col THEN values[i] ELSE @[i][c]]]]

\* What the caller's object `arg` holds after `written` was assigned to:
\* the assignment shows through when both names denote the same object.
After(arg, written) == IF written.ref = arg.ref THEN written ELSE arg

\* df[col].dropna().unique()
Unique(df, col) == {df.rows[i][col] : i \in 1..Len(df.rows)} \ {NULL}

\* Columns holding integers; every other column holds text (or NULL).
IntCols == {"id_peminjaman", "id_anggota", "id_buku", "tgl_pinjam", "denda_buku",
            "bulan", "tahun_terbit", "jumlah", "id",
            "b.id_buku", "b.tahun_terbit", "bp.urutan_pengarang"}

\* Order of two means: NaN is sorted last whatever the direction.
MeanLess(a, b) == a # <<>> /\ b # <<>> /\ a[1] * b[2] < b[1] * a[2]

\* Order of two non-null cells of column col.
Less(col, a, b) ==
    IF col \in IntCols THEN a < b
    ELSE IF col = "rata_durasi" THEN MeanLess(a, b)
    ELSE Rank(a) < Rank(b)

IsNull(col, v) == IF col \in IntCols THEN FALSE ELSE v = NULL

\* The columns of the tables that are exported, in the order of the SELECT
\* lists that name them (and of cols_order on the Buku page).
ColOrder ==
    << "id_peminjaman", "tgl_pinjam", "tgl_kembali", "durasi_peminjaman",
       "denda_buku", "status_peminjaman", "id_anggota", "status_anggota",
       "nama_anggota", "nama_prodi", "nama_fakultas", "id_buku", "judul",
       "kategori_buku", "kode_pengarang", "tahun_terbit", "status_buku" >>

\* df.columns
Columns(df) == SelectSeq(ColOrder, LAMBDA c : c \in df.cols)

\* The text of a timestamp: the date alone when no cell of its column has
\* a time of day (dateonly), date and time otherwise.
StampText(ts, dateonly) ==
    LET two(n) == IF n < 10 THEN "0" \o ToString(n) ELSE ToString(n)
        date == "20" \o two(ts \div 1000000) \o "-" \o two((ts \div 10000) % 100)
                  \o "-" \o two((ts \div 100) % 100)
    IN  IF dateonly THEN date ELSE date \o " " \o two(ts % 100) \o ":00:00"

\* The author codes of a book as one text, SEPARATOR ', '.
RECURSIVE JoinCodes(_)
JoinCodes(codes) ==
    IF codes = <<>> THEN ""
    ELSE IF Len(codes) = 1 THEN codes[1]
    ELSE codes[1] \o ", " \o JoinCodes(Tail(codes))

\* The text of the cell v of column col in a CSV: a null is the empty text.
CsvCell(col, v, dateonly) ==
    IF col = "kode_pengarang" THEN JoinCodes(v)
    ELSE IF col = "tgl_pinjam" THEN StampText(v, dateonly)
    ELSE IF col = "tgl_kembali"
    THEN IF v = <<>> THEN "" ELSE StampText(v[1], dateonly)
    ELSE IF col = "durasi_peminjaman"
    THEN IF v = <<>> THEN "" ELSE ToString(v[1])
    ELSE IF col \in IntCols THEN ToString(v)
    ELSE IF v = NULL THEN "" ELSE v

\* The records of the cells of df, one for each row in the order of the
\* rows, the cells in the order of the columns cols.
CsvRecords(df, cols) ==
    LET midnight(ts) == ts % 100 = 0
        dateonly(c) ==
            IF c = "tgl_pinjam"
            THEN \A i \in 1..Len(df.rows) : midnight(df.rows[i][c])
            ELSE IF c = "tgl_kembali"
            THEN \A i \in 1..Len(df.rows) :
                    df.rows[i][c] # <<>> => midnight(df.rows[i][c][1])
            ELSE FALSE
    IN  [i \in 1..Len(df.rows) |->
            [k \in 1..Len(cols) |-> CsvCell(cols[k], df.rows[i][cols[k]],
                                            dateonly(cols[k]))]]

\* df.to_csv(): the index is written too, as a first column without name.
ToCsvWithIndex(df) ==
    LET recs == CsvRecords(df, Columns(df))
    IN  << <<"">> \o Columns(df) >>
        \o [i \in 1..Len(recs) |-> <<ToString(i - 1)>> \o recs[i]]

\* df.to_csv(index=False): the record of the column names, then the record
\* of each row.
ToCsv(df) == <<Columns(df)>> \o CsvRecords(df, Columns(df))

\* The group keys S (tuples of the columns keys) as the sequence in
\* ascending order, column by column.
SortKeys(S, keys) ==
    LET KeyLt(a, b) == \E k \in 1..Len(keys) :
                          /\ \A m \in 1..(k - 1) : a[m] = b[m]
                          /\ Less(keys[k], a[k], b[k])
    IN  [k \in 1..Cardinality(S) |->
            CHOOSE g \in S : Cardinality({h \in S : KeyLt(h, g)}) = k - 1]

\* A stable sort of rows by column col: equal cells keep their order.
StableSort(rows, col, asc) ==
    LET n == Len(rows)
        Before(r1, r2) == IF asc THEN Less(col, r1[col], r2[col])
                                 ELSE Less(col, r2[col], r1[col])
        Prec(i, j) == \/ Before(rows[i], rows[j])
                      \/ (~Before(rows[j], rows[i]) /\ i < j)
        p == [k \in 1..n |->
                CHOOSE i \in 1..n :
                    Cardinality({j \in 1..n : j # i /\ Prec(j, i)}) = k - 1]
    IN  [i \in 1..n |-> rows[p[i]]]

Reverse(s) == [i \in 1..Len(s) |-> s[Len(s) + 1 - i]]

\* The orders in which an unstable sort may leave equal keys: numpy's
\* quicksort promises none; "asis" is the stable outcome.
TieOrders == {"asis", "reversed"}

\* A sort whose result is the table as it was.
KeepOrder(df, col, asc, tie, site) == [df EXCEPT !.ref = site]

\* df.sort_values(col, ascending=asc): a new object.
SortValues(df, col, asc, tie, site) ==
    LET input == IF tie = "asis" THEN df.rows ELSE Reverse(df.rows)
    IN  [ref |-> site, cols |-> df.cols, rows |-> StableSort(input, col, asc)]

\* A truncation that keeps one row too many.
HeadTooMany(df, n) ==
    [df EXCEPT !.rows = SubSeq(@, 1, IF Len(@) < n + 1 THEN Len(@) ELSE n + 1)]

\* df.head(n)
HeadN(df, n) ==
    [df EXCEPT !.rows = SubSeq(@, 1, IF Len(@) < n THEN Len(@) ELSE n)]

\* df.groupby(keys).size().reset_index(name="jumlah"): one row per distinct
\* key present, rows with a null key dropped, groups in ascending key order.
GroupSize(df, keys, site) ==
    LET nk == Len(keys)
        KeyOf(r) == [k \in 1..nk |-> r[keys[k]]]
        Valid(r) == \A k \in 1..nk : ~IsNull(keys[k], r[keys[k]])
        kept == SelectSeq(df.rows, Valid)
        groups == {KeyOf(kept[i]) : i \in 1..Len(kept)}
        order == SortKeys(groups, keys)
        Count(g) == Cardinality({i \in 1..Len(kept) : KeyOf(kept[i]) = g})
        Pos(c) == CHOOSE k \in 1..nk : keys[k] = c
    IN  [ref |-> site,
         cols |-> Range(keys) \cup {"jumlah"},
         rows |-> [i \in 1..Len(order) |->
                     [c \in Range(keys) \cup {"jumlah"} |->
                         IF c = "jumlah" THEN Count(order[i])
                                         ELSE order[i][Pos(c)]]]]

\* df.groupby(key)[val].mean().reset_index(name=out): the mean of the
\* non-null values of each group, as the exact fraction <<sum, count>>;
\* a group without a non-null value has the mean <<>> (NaN).
RECURSIVE SumSeq(_)
SumSeq(s) == IF s = <<>> THEN 0 ELSE s[1] + SumSeq(Tail(s))

GroupMean(df, key, val, out, site) ==
    LET Valid(r) == ~IsNull(key, r[key])
        kept == SelectSeq(df.rows, Valid)
        groups == {<<kept[i][key]>> : i \in 1..Len(kept)}
        keys == SortKeys(groups, <<key>>)
        order == [i \in 1..Len(keys) |-> keys[i][1]]
        Vals(g) == LET In(r) == r[key] = g /\ r[val] # <<>>
                       rs == SelectSeq(kept, In)
                   IN  [i \in 1..Len(rs) |-> rs[i][val][1]]
    IN  [ref |-> site,
         cols |-> {key, out},
         rows |-> [i \in 1..Len(order) |->
                     [c \in {key, out} |->
                         IF c = out
                         THEN IF Vals(order[i]) = <<>> THEN <<>>
                              ELSE <<SumSeq(Vals(order[i])), Len(Vals(order[i]))>>
                         ELSE order[i]]]]

-----------------------------------------------------------------------------
(* charts.py.  A call yields [exc, ret, plotted, arg]: exc the exception it *)
(* raised ("" when it returned), ret the returned value as a tuple (<<f>>   *)
(* for a single value, <<f, t>> for a pair; f is "Figure" or "None"),       *)
(* plotted the table handed to plotly, arg the caller's table after the    *)
(* call.  plotly.express builds a figure from any table, also an empty one.*)

Raised(e, df) == [exc |-> e, ret |-> <<>>, plotted |-> EmptyTable, arg |-> df]

Returned(r, p, df) == [exc |-> "", ret |-> r, plotted |-> p, arg |-> df]

chart_tren_bulanan_status(df_pinjam, tie) ==
    LET df == Copy(df_pinjam, "tren.df")
        bulan == [i \in 1..Len(df.rows) |-> ToPeriodM(df.rows[i]["tgl_pinjam"])]
        df2 == SetCol(df, "bulan", bulan)
        arg == After(df_pinjam, df2)
        per_bulan_status ==
            GroupSize(df2, <<"bulan", "status_peminjaman">>, "tren.per_bulan_status")
    IN  IF "tgl_pinjam" \notin df.cols THEN Raised("KeyError", df_pinjam)
        ELSE IF "status_peminjaman" \notin df2.cols THEN Raised("KeyError", arg)
        ELSE Returned(<<"Figure">>, per_bulan_status, arg)

chart_peminjaman_per_fakultas(df_pinjam, tie) ==
    LET per_fak ==
            SortValues(GroupSize(df_pinjam, <<"nama_fakultas">>, "fak.size"),
                       "jumlah", FALSE, tie, "fak.per_fak")
    IN  IF "nama_fakultas" \notin df_pinjam.cols THEN Raised("KeyError", df_pinjam)
        ELSE Returned(<<"Figure", per_fak>>, per_fak, df_pinjam)

chart_peminjaman_per_kategori(df_pinjam, tie) ==
    LET per_kat ==
            SortValues(GroupSize(df_pinjam, <<"kategori_buku">>, "kat.size"),
                       "jumlah", FALSE, tie, "kat.per_kat")
    IN  IF "kategori_buku" \notin df_pinjam.cols THEN Raised("KeyError", df_pinjam)
        ELSE IF IsEmpty(per_kat) THEN Returned(<<"None", per_kat>>, EmptyTable, df_pinjam)
        ELSE Returned(<<"Figure", per_kat>>, per_kat, df_pinjam)

\* The mean per faculty without the filter on the duration.
chart_durasi_unfiltered(df_pinjam, tie) ==
    LET durasi_fak ==
            SortValues(GroupMean(df_pinjam, "nama_fakultas", "durasi_peminjaman",
                                 "rata_durasi", "durasi.mean"),
                       "rata_durasi", FALSE, tie, "durasi.durasi_fak")
    IN  IF "durasi_peminjaman" \notin df_pinjam.cols THEN Raised("KeyError", df_pinjam)
        ELSE IF IsEmpty(df_pinjam)
        THEN Returned(<<"None", df_pinjam>>, EmptyTable, df_pinjam)
        ELSE IF "nama_fakultas" \notin df_pinjam.cols THEN Raised("KeyError", df_pinjam)
        ELSE Returned(<<"Figure", durasi_fak>>, durasi_fak, df_pinjam)

chart_durasi_rata_per_fakultas(df_pinjam, tie) ==
    LET df0 == Copy(df_pinjam, "durasi.copy")
        notna == [i \in 1..Len(df0.rows) |-> df0.rows[i]["durasi_peminjaman"] # <<>>]
        df == Where(df0, notna, "durasi.df")
        durasi_fak ==
            SortValues(GroupMean(df, "nama_fakultas", "durasi_peminjaman",
                                 "rata_durasi", "durasi.mean"),
                       "rata_durasi", FALSE, tie, "durasi.durasi_fak")
    IN  IF "durasi_peminjaman" \notin df0.cols THEN Raised("KeyError", df_pinjam)
        ELSE IF IsEmpty(df) THEN Returned(<<"None", df>>, EmptyTable, df_pinjam)
        ELSE IF "nama_fakultas" \notin df.cols THEN Raised("KeyError", df_pinjam)
        ELSE Returned(<<"Figure", durasi_fak>>, durasi_fak, df_pinjam)

chart_hist_durasi(df_pinjam, tie) ==
    LET df0 == Copy(df_pinjam, "hist.copy")
        notna == [i \in 1..Len(df0.rows) |-> df0.rows[i]["durasi_peminjaman"] # <<>>]
        df == Where(df0, notna, "hist.df")
    IN  IF "durasi_peminjaman" \notin df0.cols THEN Raised("KeyError", df_pinjam)
        ELSE IF IsEmpty(df) THEN Returned(<<"None">>, EmptyTable, df_pinjam)
        ELSE Returned(<<"Figure">>, df, df_pinjam)

\* The count per status taken as .count() of the return date: the loans
\* of each status that have been returned.
chart_status_count_returned(df_filtered, tie) ==
    LET size == GroupSize(df_filtered, <<"status_peminjaman">>, "status.per_status")
        returned ==
            [k \in 1..Len(size.rows) |->
                Cardinality({i \in 1..Len(df_filtered.rows) :
                    /\ df_filtered.rows[i]["status_peminjaman"]
                         = size.rows[k]["status_peminjaman"]
                    /\ df_filtered.rows[i]["tgl_kembali"] # <<>>})]
        per_status == SetCol(size, "jumlah", returned)
    IN  IF "status_peminjaman" \notin df_filtered.cols
        THEN Raised("KeyError", df_filtered)
        ELSE IF IsEmpty(per_status)
        THEN Returned(<<"None", per_status>>, EmptyTable, df_filtered)
        ELSE Returned(<<"Figure", per_status>>, per_status, df_filtered)

chart_peminjaman_per_status(df_filtered, tie) ==
    LET per_status == GroupSize(df_filtered, <<"status_peminjaman">>, "status.per_status")
    IN  IF "status_peminjaman" \notin df_filtered.cols
        THEN Raised("KeyError", df_filtered)
        ELSE IF IsEmpty(per_status)
        THEN Returned(<<"None", per_status>>, EmptyTable, df_filtered)
        ELSE Returned(<<"Figure", per_status>>, per_status, df_filtered)

chart_top5_judul(df_filtered, tie) ==
    LET top_judul ==
            HeadN(SortValues(GroupSize(df_filtered, <<"judul">>, "top.size"),
                             "jumlah", FALSE, tie, "top.top_judul"), 5)
    IN  IF "judul" \notin df_filtered.cols THEN Raised("KeyError", df_filtered)
        ELSE IF IsEmpty(top_judul)
        THEN Returned(<<"None", top_judul>>, EmptyTable, df_filtered)
        ELSE Returned(<<"Figure", top_judul>>, top_judul, df_filtered)

chart_anggota_per_status(df_anggota_view, tie) ==
    LET per_status ==
            GroupSize(df_anggota_view, <<"status_anggota">>, "astatus.per_status")
    IN  IF "status_anggota" \notin df_anggota_view.cols
        THEN Raised("KeyError", df_anggota_view)
        ELSE Returned(<<"Figure">>, per_status, df_anggota_view)

chart_anggota_per_fakultas(df_anggota_view, tie) ==
    LET per_fak ==
            SortValues(GroupSize(df_anggota_view, <<"nama_fakultas">>, "afak.size"),
                       "jumlah", FALSE, tie, "afak.per_fak")
    IN  IF "nama_fakultas" \notin df_anggota_view.cols
        THEN Raised("KeyError", df_anggota_view)
        ELSE Returned(<<"Figure">>, per_fak, df_anggota_view)

chart_buku_per_kategori(df_buku_view, tie) ==
    LET per_kat ==
            SortValues(GroupSize(df_buku_view, <<"kategori_buku">>, "bkat.size"),
                       "jumlah", TRUE, tie, "bkat.per_kat")
    IN  IF "kategori_buku" \notin df_buku_view.cols
        THEN Raised("KeyError", df_buku_view)
        ELSE Returned(<<"Figure">>, per_kat, df_buku_view)

chart_buku_per_tahun(df_buku_view, tie) ==
    LET per_tahun ==
            SortValues(GroupSize(df_buku_view, <<"tahun_terbit">>, "tahun.size"),
                       "tahun_terbit", TRUE, tie, "tahun.per_tahun")
    IN  IF "tahun_terbit" \notin df_buku_view.cols
        THEN Raised("KeyError", df_buku_view)
        ELSE Returned(<<"Figure">>, per_tahun, df_buku_view)

chart_buku_per_status(df_buku_view, tie) ==
    LET status_col == IF "status_buku" \in df_buku_view.cols THEN "status_buku"
                      ELSE IF "status" \in df_buku_view.cols THEN "status"
                      ELSE NULL
        per_status ==
            SortValues(GroupSize(df_buku_view, <<status_col>>, "bstatus.size"),
                       "jumlah", FALSE, tie, "bstatus.per_status")
    IN  IF status_col = NULL THEN Returned(<<"None">>, EmptyTable, df_buku_view)
        ELSE Returned(<<"Figure">>, per_status, df_buku_view)

ChartFns ==
    {"chart_tren_bulanan_status", "chart_peminjaman_per_fakultas",
     "chart_peminjaman_per_kategori", "chart_durasi_rata_per_fakultas",
     "chart_hist_durasi", "chart_peminjaman_per_status", "chart_top5_judul",
     "chart_anggota_per_status", "chart_anggota_per_fakultas",
     "chart_buku_per_kategori", "chart_buku_per_tahun", "chart_buku_per_status"}

Chart(fn, df, tie) ==
    CASE fn = "chart_tren_bulanan_status" -> chart_tren_bulanan_status(df, tie)
      [] fn = "chart_peminjaman_per_fakultas" -> chart_peminjaman_per_fakultas(df, tie)
      [] fn = "chart_peminjaman_per_kategori" -> chart_peminjaman_per_kategori(df, tie)
      [] fn = "chart_durasi_rata_per_fakultas" -> chart_durasi_rata_per_fakultas(df, tie)
      [] fn = "chart_hist_durasi" -> chart_hist_durasi(df, tie)
      [] fn = "chart_peminjaman_per_status" -> chart_peminjaman_per_status(df, tie)
      [] fn = "chart_top5_judul" -> chart_top5_judul(df, tie)
      [] fn = "chart_anggota_per_status" -> chart_anggota_per_status(df, tie)
      [] fn = "chart_anggota_per_fakultas" -> chart_anggota_per_fakultas(df, tie)
      [] fn = "chart_buku_per_kategori" -> chart_buku_per_kategori(df, tie)
      [] fn = "chart_buku_per_tahun" -> chart_buku_per_tahun(df, tie)
      [] fn = "chart_buku_per_status" -> chart_buku_per_status(df, tie)

-----------------------------------------------------------------------------
(* The store: the rows the queries of db.py select.  A stored date is the  *)
(* raw tuple <<year, month, day, hour>>; a stored loan carries the columns *)
(* of its member, program, faculty and book (the joins of the query).      *)

RawDates == {<<24, 1, 30>>, <<24, 1, 31>>, <<24, 2, 1>>}

RawStamps == {<<d[1], d[2], d[3], h>> : d \in RawDates, h \in Hours}

BaseLoan ==
    [tgl_pinjam |-> <<24, 1, 30, 0>>, tgl_kembali |-> <<<<24, 2, 1, 0>>>>,
     durasi_peminjaman |-> <<2>>, denda_buku |-> 0,
     id_anggota |-> 1, status_anggota |-> "Mahasiswa",
     nama_prodi |-> "Informatika", nama_fakultas |-> "Teknik",
     id_buku |-> 1, judul |-> "Algoritma", kategori_buku |-> "Sains"]

\* The loans of the model: BaseLoan and the loans that differ from it in
\* one attribute (the day or hour, the year, the borrower's program, the
\* borrower's status, the return, the book).
LoanPool ==
    {[BaseLoan EXCEPT !.tgl_pinjam = t] : t \in RawStamps}
    \cup {[BaseLoan EXCEPT !.tgl_pinjam = <<25, 1, 30, 0>>,
                           !.tgl_kembali = <<<<25, 2, 1, 0>>>>]}
    \cup {[BaseLoan EXCEPT !.nama_prodi = pf[1], !.nama_fakultas = pf[2]] :
            pf \in {<<"Manajemen", "Ekonomi">>, <<"Akuntansi", "Ekonomi">>,
                    <<NULL, NULL>>}}
    \cup {[BaseLoan EXCEPT !.id_anggota = 2, !.status_anggota = "Dosen"]}
    \cup {[BaseLoan EXCEPT !.tgl_kembali = <<>>, !.durasi_peminjaman = <<>>],
          [BaseLoan EXCEPT !.tgl_kembali = <<<<24, 2, 1, 13>>>>,
                           !.durasi_peminjaman = <<9>>, !.denda_buku = 5000]}
    \cup {[BaseLoan EXCEPT !.id_buku = 2, !.judul = "Basis Data"],
          [BaseLoan EXCEPT !.id_buku = 3, !.judul = "Basis Data",
                           !.kategori_buku = "Fiksi"]}

\* The spelling of the names that are searched.
Chars ==
    [Ani |-> <<"A", "n", "i">>, Budi |-> <<"B", "u", "d", "i">>]
    @@ ("Algoritma" :> <<"A", "l", "g", "o">>)
    @@ ("Basis Data" :> <<"B", "a", "s", "i", "s">>)

\* The i-th loan, member and book of the application's snapshots.
SeedLoan(i) ==
    [BaseLoan EXCEPT
        !.tgl_pinjam = IF i % 3 = 1 THEN <<24, 1, 30, 13>>
                       ELSE IF i % 3 = 2 THEN <<24, 2, 1, 0>> ELSE <<24, 1, 31, 0>>,
        !.tgl_kembali = IF i % 2 = 1 THEN <<>> ELSE <<<<24, 2, 1, 13>>>>,
        !.durasi_peminjaman = IF i % 2 = 1 THEN <<>> ELSE <<1>>,
        !.kategori_buku = IF i % 2 = 1 THEN "Sains" ELSE "Fiksi",
        !.id_buku = IF i % 2 = 1 THEN 1 ELSE 3,
        !.judul = IF i % 2 = 1 THEN "Algoritma" ELSE "Basis Data"]

SeedAnggota(i) ==
    [id_anggota |-> i,
     status_anggota |-> IF i % 2 = 1 THEN "Mahasiswa" ELSE "Dosen",
     nama_anggota |-> IF i % 2 = 1 THEN "Ani" ELSE "Budi",
     nama_prodi |-> IF i % 2 = 1 THEN "Informatika" ELSE NULL,
     nama_fakultas |-> IF i % 2 = 1 THEN "Teknik" ELSE NULL]

SeedBuku(i) ==
    [id_buku |-> i,
     judul |-> IF i % 2 = 1 THEN "Algoritma" ELSE "Basis Data",
     kategori_buku |-> IF i % 2 = 1 THEN "Sains" ELSE "Fiksi",
     kode_pengarang |-> <<"P">>,
     tahun_terbit |-> 2019 + i,
     status_buku |-> IF i % 2 = 1 THEN "Tersedia" ELSE "Dipinjam"]

\* The store after v rounds of acquisitions: two loans, members and books
\* more each round.
Snapshot(v) ==
    [peminjaman |-> [i \in 1..(2 * v) |-> SeedLoan(i)],
     anggota |-> [i \in 1..(2 * v) |-> SeedAnggota(i)],
     buku |-> [i \in 1..(2 * v) |-> SeedBuku(i)]]

AppStores == {Snapshot(v) : v \in 0..MaxVer}

\* The loans of the filter specification: BaseLoan and, for each filtered
\* attribute, a loan that differs from it there (a later day and hour, no
\* program and faculty, another faculty and status, no return, another
\* category).
FilterPool ==
    {BaseLoan,
     [BaseLoan EXCEPT !.tgl_pinjam = <<24, 1, 31, 13>>],
     [BaseLoan EXCEPT !.tgl_pinjam = <<24, 2, 1, 13>>],
     [BaseLoan EXCEPT !.nama_prodi = NULL, !.nama_fakultas = NULL],
     [BaseLoan EXCEPT !.nama_prodi = "Manajemen", !.nama_fakultas = "Ekonomi",
                      !.id_anggota = 2, !.status_anggota = "Dosen"],
     [BaseLoan EXCEPT !.tgl_kembali = <<>>, !.durasi_peminjaman = <<>>],
     [BaseLoan EXCEPT !.id_buku = 3, !.judul = "Basis Data",
                      !.kategori_buku = "Fiksi"]}

\* The stores of the filter specification: up to MaxRows loans of FilterPool.
LoanStores ==
    {[peminjaman |-> t, anggota |-> <<>>, buku |-> <<>>] :
        t \in UNION {[1..n -> FilterPool] : n \in 0..MaxRows}}

-----------------------------------------------------------------------------
(* The database "seperlima" and the queries of db.py.  A table is the     *)
(* sequence of its rows, a row a function of its columns, named as the    *)
(* queries name them (alias.column).  An id is a positive integer; NoId   *)
(* is the NULL of an id column.                                            *)

NoId == 0

RECURSIVE Concat(_)
Concat(ss) == IF ss = <<>> THEN <<>> ELSE ss[1] \o Concat(Tail(ss))

\* left JOIN right ON left.lk = right.rk, and LEFT JOIN when outer: a left
\* row is joined with every right row of its key; a left row without one
\* (its key NULL or matched by no row) is dropped, or when outer kept with
\* NULL in the columns of right (nullrow).
Join(left, right, lk, rk, nullrow, outer) ==
    Concat([i \in 1..Len(left) |->
        LET On(r) == left[i][lk] # NoId /\ r[rk] = left[i][lk]
            hits == SelectSeq(right, On)
        IN  IF hits # <<>> THEN [k \in 1..Len(hits) |-> left[i] @@ hits[k]]
            ELSE IF outer THEN <<left[i] @@ nullrow>>
            ELSE <<>>])

NullProdi == ("ps.id_prodi" :> NoId) @@ ("ps.nama_prodi" :> NULL)
             @@ ("ps.id_fakultas" :> NoId)

NullFakultas == ("f.id_fakultas" :> NoId) @@ ("f.nama_fakultas" :> NULL)

NullAnggota ==
    ("a.id_anggota" :> NoId) @@ ("a.status" :> NULL) @@ ("a.nama_anggota" :> NULL)
    @@ ("a.id_prodi" :> NoId)

NullBuku ==
    ("b.id_buku" :> NoId) @@ ("b.id_judul" :> NoId) @@ ("b.id_klasifikasi" :> NoId)
    @@ ("b.tahun_terbit" :> NoId) @@ ("b.status" :> NULL)

NullJudul == ("j.id_judul" :> NoId) @@ ("j.judul" :> NULL)

NullKlasifikasi == ("k.id_klasifikasi" :> NoId) @@ ("k.kategori_buku" :> NULL)

NullPetugas == ("pt.id_petugas" :> NoId)

NullLink == ("bp.id_buku" :> NoId) @@ ("bp.id_pengarang" :> NoId)
            @@ ("bp.urutan_pengarang" :> NoId)

NullPengarang == ("pg.id_pengarang" :> NoId) @@ ("pg.kode_pengarang" :> NULL)

\* FROM peminjaman p JOIN anggota a ... JOIN petugas pt, and the columns
\* selected as they are stored (the status is derived by ReadSql).
SqlPeminjamanDetail(db) ==
    LET j1 == Join(db.peminjaman, db.anggota, "p.id_anggota", "a.id_anggota",
                   NullAnggota, FALSE)
        j2 == Join(j1, db.program_studi, "a.id_prodi", "ps.id_prodi", NullProdi, TRUE)
        j3 == Join(j2, db.fakultas, "ps.id_fakultas", "f.id_fakultas",
                   NullFakultas, TRUE)
        j4 == Join(j3, db.buku, "p.id_buku", "b.id_buku", NullBuku, FALSE)
        j5 == Join(j4, db.judul, "b.id_judul", "j.id_judul", NullJudul, FALSE)
        j6 == Join(j5, db.klasifikasi, "b.id_klasifikasi", "k.id_klasifikasi",
                   NullKlasifikasi, FALSE)
        j7 == Join(j6, db.petugas, "p.id_petugas", "pt.id_petugas", NullPetugas, FALSE)
    IN  [i \in 1..Len(j7) |->
            [id_peminjaman |-> j7[i]["p.id_peminjaman"],
             tgl_pinjam |-> j7[i]["p.tgl_pinjam"],
             tgl_kembali |-> j7[i]["p.tgl_kembali"],
             durasi_peminjaman |-> j7[i]["p.durasi_peminjaman"],
             denda_buku |-> j7[i]["p.denda_buku"],
             id_anggota |-> j7[i]["a.id_anggota"],
             status_anggota |-> j7[i]["a.status"],
             nama_prodi |-> j7[i]["ps.nama_prodi"],
             nama_fakultas |-> j7[i]["f.nama_fakultas"],
             id_buku |-> j7[i]["b.id_buku"],
             judul |-> j7[i]["j.judul"],
             kategori_buku |-> j7[i]["k.kategori_buku"]]]

\* FROM anggota a LEFT JOIN program_studi ps LEFT JOIN fakultas f
SqlAnggota(db) ==
    LET j1 == Join(db.anggota, db.program_studi, "a.id_prodi", "ps.id_prodi",
                   NullProdi, TRUE)
        j2 == Join(j1, db.fakultas, "ps.id_fakultas", "f.id_fakultas",
                   NullFakultas, TRUE)
    IN  [i \in 1..Len(j2) |->
            [id_anggota |-> j2[i]["a.id_anggota"],
             status_anggota |-> j2[i]["a.status"],
             nama_anggota |-> j2[i]["a.nama_anggota"],
             nama_prodi |-> j2[i]["ps.nama_prodi"],
             nama_fakultas |-> j2[i]["f.nama_fakultas"]]]

\* GROUP_CONCAT in which the codes come in the order of the joined rows.
GroupConcatUnordered(rows) ==
    LET Coded(r) == r["pg.kode_pengarang"] # NULL
        coded == SelectSeq(rows, Coded)
    IN  [k \in 1..Len(coded) |-> coded[k]["pg.kode_pengarang"]]

\* GROUP_CONCAT(pg.kode_pengarang ORDER BY bp.urutan_pengarang SEPARATOR
\* ', ') over the rows of a group: the codes that are not NULL, in the
\* order of urutan_pengarang, as the sequence of the codes joined; <<>> is
\* the NULL of a group that has no code.
GroupConcat(rows) ==
    LET Coded(r) == r["pg.kode_pengarang"] # NULL
        coded == StableSort(SelectSeq(rows, Coded), "bp.urutan_pengarang", TRUE)
    IN  [k \in 1..Len(coded) |-> coded[k]["pg.kode_pengarang"]]

\* The query of load_buku: the joins, GROUP BY the columns of the book,
\* ORDER BY b.id_buku.
SqlBuku(db) ==
    LET j1 == Join(db.buku, db.judul, "b.id_judul", "j.id_judul", NullJudul, FALSE)
        j2 == Join(j1, db.klasifikasi, "b.id_klasifikasi", "k.id_klasifikasi",
                   NullKlasifikasi, FALSE)
        j3 == Join(j2, db.buku_pengarang, "b.id_buku", "bp.id_buku", NullLink, TRUE)
        j4 == Join(j3, db.pengarang, "bp.id_pengarang", "pg.id_pengarang",
                   NullPengarang, TRUE)
        by == <<"b.id_buku", "j.judul", "k.kategori_buku", "b.tahun_terbit", "b.status">>
        KeyOf(r) == [k \in 1..Len(by) |-> r[by[k]]]
        groups == SortKeys({KeyOf(j4[i]) : i \in 1..Len(j4)}, by)
    IN  [g \in 1..Len(groups) |->
            LET In(r) == KeyOf(r) = groups[g]
            IN  [id_buku |-> groups[g][1],
                 judul |-> groups[g][2],
                 kategori_buku |-> groups[g][3],
                 kode_pengarang |-> GroupConcat(SelectSeq(j4, In)),
                 tahun_terbit |-> groups[g][4],
                 status_buku |-> groups[g][5]]]

\* What the queries of the three joined loaders return from database db.
StoreOf(db) ==
    [db |-> db,
     peminjaman |-> SqlPeminjamanDetail(db),
     anggota |-> SqlAnggota(db),
     buku |-> SqlBuku(db)]

-----------------------------------------------------------------------------
(* db.py *)

Loaders ==
    {"load_peminjaman_detail", "load_anggota", "load_buku", "load_fakultas",
     "load_program_studi", "load_pengarang", "load_buku_pengarang",
     "load_petugas", "load_judul", "load_klasifikasi"}

LoanCols ==
    {"id_peminjaman", "tgl_pinjam", "tgl_kembali", "durasi_peminjaman",
     "denda_buku", "status_peminjaman", "id_anggota", "status_anggota",
     "nama_prodi", "nama_fakultas", "id_buku", "judul", "kategori_buku"}

AnggotaCols ==
    {"id_anggota", "status_anggota", "nama_anggota", "nama_prodi", "nama_fakultas"}

BukuCols ==
    {"id_buku", "judul", "kategori_buku", "kode_pengarang", "tahun_terbit",
     "status_buku"}

\* What the store is doing when a loader reaches it: "up" answers, "down"
\* refuses the connection, "queryfail" connects and fails the query,
\* "baddate" answers with a loan date pandas cannot parse.
DbModes == {"up", "down", "queryfail", "baddate"}

\* pd.read_sql(query, conn) of loader l: the rows selected, as stored.  A
\* stored loan that carries no id has the id of its place.
ReadSql(l, st) ==
    IF l = "load_peminjaman_detail"
    THEN [ref |-> l, cols |-> LoanCols,
          rows |-> [i \in 1..Len(st.peminjaman) |->
                      [c \in LoanCols |->
                          IF c = "id_peminjaman"
                          THEN IF "id_peminjaman" \in DOMAIN st.peminjaman[i]
                               THEN st.peminjaman[i]["id_peminjaman"] ELSE i
                          ELSE IF c = "status_peminjaman"
                          THEN IF st.peminjaman[i].tgl_kembali = <<>>
                               THEN "Sedang dipinjam" ELSE "Selesai"
                          ELSE st.peminjaman[i][c]]]]
    ELSE IF l = "load_anggota"
    THEN [ref |-> l, cols |-> AnggotaCols, rows |-> st.anggota]
    ELSE IF l = "load_buku"
    THEN [ref |-> l, cols |-> BukuCols, rows |-> st.buku]
    ELSE [ref |-> l, cols |-> {"id"}, rows |-> <<[id |-> 1]>>]

\* pd.to_datetime of a stored date.
ToDatetime(raw) == ((raw[1] * 100 + raw[2]) * 100 + raw[3]) * 100 + raw[4]

\* The body of a loader: connect, query, close, and for the loan detail
\* normalize the two date columns.  conns counts the open connections.
LoaderBody(l, st, mode, conns) ==
    LET connected == conns + 1          \* conn = get_connection()
        closed == connected - 1         \* conn.close()
        fail(e, n, o) ==
            [exc |-> e, df |-> EmptyTable, conns |-> n, opened |-> o, queried |-> o]
        raw == ReadSql(l, st)
        pinjam == [i \in 1..Len(raw.rows) |-> ToDatetime(raw.rows[i]["tgl_pinjam"])]
        kembali == [i \in 1..Len(raw.rows) |->
                      IF raw.rows[i]["tgl_kembali"] = <<>> THEN <<>>
                      ELSE <<ToDatetime(raw.rows[i]["tgl_kembali"][1])>>]
        df == SetCol(SetCol(raw, "tgl_pinjam", pinjam), "tgl_kembali", kembali)
    IN  IF mode = "down" THEN fail("InterfaceError", conns, FALSE)
        ELSE IF mode = "queryfail" THEN fail("DatabaseError", connected, TRUE)
        ELSE IF l # "load_peminjaman_detail"
        THEN [exc |-> "", df |-> raw, conns |-> closed,
              opened |-> TRUE, queried |-> TRUE]
        ELSE IF mode = "baddate" THEN fail("DateParseError", closed, TRUE)
        ELSE [exc |-> "", df |-> df, conns |-> closed,
              opened |-> TRUE, queried |-> TRUE]

\* @st.cache_data: the memoized call of loader l.  A stored entry is
\* returned without running the body; a body that raised stores nothing.
\* A memo that keeps whatever the body left, also after it raised.
MissKeepsFailure(l, c, b) ==
    [exc |-> b.exc, df |-> b.df, cache |-> [c EXCEPT ![l] = <<b.df>>],
     conns |-> b.conns, hit |-> FALSE, opened |-> b.opened, queried |-> b.queried]

\* The body of a memoized call that found no entry: its result is stored
\* unless it raised.
Miss(l, c, b) ==
    [exc |-> b.exc, df |-> b.df,
     cache |-> IF b.exc = "" THEN [c EXCEPT ![l] = <<b.df>>] ELSE c,
     conns |-> b.conns, hit |-> FALSE, opened |-> b.opened, queried |-> b.queried]

\* A memo that expires at once: every call runs the body and replaces
\* the entry.
AlwaysRefresh(l, c, st, mode, conns) ==
    Miss(l, c, LoaderBody(l, st, mode, conns))

CacheData(l, c, st, mode, conns) ==
    IF c[l] # <<>>
    THEN [exc |-> "", df |-> c[l][1], cache |-> c, conns |-> conns,
          hit |-> TRUE, opened |-> FALSE, queried |-> FALSE]
    ELSE Miss(l, c, LoaderBody(l, st, mode, conns))

\* One loader call as the page sees it, with the entry it leaves in the
\* render's log: touched are the loaders whose cache entry the call changed.
Logged(l, c, conns, r) ==
    [exc |-> r.exc, df |-> r.df, cache |-> r.cache, conns |-> r.conns,
     log |-> [loader |-> l, exc |-> r.exc, hit |-> r.hit,
              opened |-> r.opened, queried |-> r.queried,
              leaked |-> r.conns - conns,
              touched |-> {m \in Loaders : r.cache[m] # c[m]},
              df |-> r.df]]

LoadCall(l, c, st, mode, conns) ==
    Logged(l, c, conns, CacheData(l, c, st, mode, conns))

-----------------------------------------------------------------------------
(* app.py: a script run.  s = [events, status, exc] is the run so far:     *)
(* events what the page has shown, status "running", "stopped" (st.stop),  *)
(* "raised" (an exception left the script, exc names it) or "done".        *)

Start == [events |-> <<>>, status |-> "running", exc |-> ""]

Running(s) == s.status = "running"

Emit(s, e) == IF Running(s) THEN [s EXCEPT !.events = Append(@, e)] ELSE s

StStop(s) == IF Running(s) THEN [s EXCEPT !.status = "stopped"] ELSE s

Raise(s, e) == IF Running(s) THEN [s EXCEPT !.status = "raised", !.exc = e] ELSE s

Finish(s) == IF Running(s) THEN [s EXCEPT !.status = "done"] ELSE s

\* A chart function was called: its exception, if any, leaves the script.
Called(s, r) == IF r.exc # "" THEN Raise(s, r.exc) ELSE s

\* a, b = value: fails unless the value is a pair.
Unpack2(s, ret) == IF Len(ret) # 2 THEN Raise(s, "UnpackError") ELSE s

\* st.plotly_chart(fig), fig the first value of ret: the renderer is handed
\* fig.  What Streamlit does with None is its own affair: it either shows
\* nothing (accepts) or raises.
PlotlyChart(s, ret, accepts) ==
    IF ~Running(s) THEN s
    ELSE IF ret[1] = "None"
    THEN IF accepts THEN Emit(s, "plotly_chart(None)")
         ELSE Raise(Emit(s, "plotly_chart(None)"), "PlotlyError")
    ELSE Emit(s, "plotly_chart(Figure)")

\* fig = chart(...); st.plotly_chart(fig)
ShowOne(s, r, accepts) == PlotlyChart(Called(s, r), r.ret, accepts)

\* fig, table = chart(...); st.plotly_chart(fig)
ShowPair(s, r, accepts) ==
    PlotlyChart(Unpack2(Called(s, r), r.ret), r.ret, accepts)

\* if not table.empty: st.caption(...)
CaptionIf(s, table) ==
    IF Running(s) /\ ~IsEmpty(table) THEN Emit(s, "caption") ELSE s

\* fig, table = chart(...); st.plotly_chart(fig); the caption of the table
TabPair(s, r, accepts) == CaptionIf(ShowPair(s, r, accepts), r.ret[2])

\* show_empty_message()
show_empty_message(s) == Emit(s, "info(Data tidak tersedia)")

\* try: df = load() / except: st.error, st.exception, st.stop
LoadGuard(s, L) ==
    IF L.exc # "" THEN StStop(Emit(Emit(s, "error"), "exception")) ELSE s

\* if df.empty: st.warning, st.stop
EmptyGuard(s, df) == IF IsEmpty(df) THEN StStop(Emit(s, "warning")) ELSE s

NoRender ==
    [page |-> "none", inputs |-> <<>>, options |-> <<>>, loads |-> <<>>,
     events |-> <<>>, status |-> "none", exc |-> "", base |-> EmptyTable,
     view |-> EmptyTable, shown |-> EmptyTable, csv |-> <<>>,
     kpi |-> <<>>, per_status |-> EmptyTable]

\* The result of a script run: what was rendered, and the cache and the
\* connections it leaves.  base is the loaded table as the cache holds it,
\* options the lists the run offered in its select boxes (<<>>: none).
Rendered(pg, inputs, loads, s, base, view, c, conns) ==
    [render |-> [page |-> pg, inputs |-> inputs, options |-> <<>>,
                 loads |-> loads, events |-> s.events, status |-> s.status,
                 exc |-> s.exc, base |-> base, view |-> view,
                 shown |-> EmptyTable, csv |-> <<>>,
                 kpi |-> <<>>, per_status |-> EmptyTable],
     cache |-> c, conns |-> conns]

\* The run r, having offered the lists opts in its select boxes.
WithOptions(r, opts) == [r EXCEPT !.render.options = opts]

\* The run r, having handed the table df to st.dataframe and the data
\* csv to st.download_button.
WithExport(r, df, csv) == [r EXCEPT !.render.shown = df, !.render.csv = csv]

\* The run r, having shown the value n in the metric "Jumlah peminjaman"
\* and received the table per_status from the status chart.
WithSummary(r, n, per_status) ==
    [r EXCEPT !.render.kpi = <<n>>, !.render.per_status = per_status]

\* The loaded table is the object the cache holds: the cache entry of l
\* after the run is what the run left in that object.
Held(c, l, base) == IF c[l] # <<>> THEN [c EXCEPT ![l] = <<base>>] ELSE c

(* Halaman Ringkasan *)
Ringkasan(c, st, conns, mode, tie, accepts) ==
    LET l == "load_peminjaman_detail"
        L == LoadCall(l, c, st, mode, conns)
        df_pinjam == L.df
        s1 == EmptyGuard(LoadGuard(Start, L), df_pinjam)
        s2 == Emit(Emit(Emit(Emit(s1, "kpi"), "kpi"), "kpi"), "kpi")
        \* tab 1
        tren == chart_tren_bulanan_status(df_pinjam, tie)
        s3 == ShowOne(s2, tren, accepts)
        df_bulan == Copy(tren.arg, "ringkasan.df_bulan")
        bulan == [i \in 1..Len(df_bulan.rows) |->
                    ToPeriodM(df_bulan.rows[i]["tgl_pinjam"])]
        df_bulan2 == SetCol(df_bulan, "bulan", bulan)
        base3 == After(tren.arg, df_bulan2)
        per_bulan == GroupSize(df_bulan2, <<"bulan">>, "ringkasan.per_bulan")
        s4 == CaptionIf(s3, per_bulan)
        \* tab 2, tab 3, tab 4
        s6 == TabPair(s4, chart_peminjaman_per_fakultas(base3, tie), accepts)
        s8 == TabPair(s6, chart_peminjaman_per_kategori(base3, tie), accepts)
        s10 == TabPair(s8, chart_durasi_rata_per_fakultas(base3, tie), accepts)
        s11 == Finish(Emit(s10, "expander"))
        base == IF ~Running(s2) THEN df_pinjam
                ELSE IF ~Running(s3) THEN tren.arg
                ELSE base3
    IN  IF Running(s1)
        THEN Rendered("Ringkasan", <<>>, <<L.log>>, s11, base, base,
                      Held(L.cache, l, base), L.conns)
        ELSE Rendered("Ringkasan", <<>>, <<L.log>>, s1, df_pinjam, EmptyTable,
                      L.cache, L.conns)

(* Halaman Referensi data: seven loads in a row, each shown as a table. *)
RefLoaders ==
    << "load_fakultas", "load_program_studi", "load_pengarang",
       "load_buku_pengarang", "load_petugas", "load_judul", "load_klasifikasi" >>

\* The tabs from the i-th on.  The store answers the first k loader calls
\* of the run and is in `mode` from then on.
RECURSIVE RefTabs(_, _, _, _, _)
RefTabs(i, r, st, mode, k) ==
    IF i > Len(RefLoaders) \/ ~Running(r.s) THEN r
    ELSE LET L == LoadCall(RefLoaders[i], r.cache, st,
                           IF i <= k THEN "up" ELSE mode, r.conns)
             s1 == IF L.exc # "" THEN Raise(r.s, L.exc)
                   ELSE Emit(Emit(r.s, "markdown"), "dataframe")
         IN  RefTabs(i + 1,
                     [s |-> s1, cache |-> L.cache, conns |-> L.conns,
                      loads |-> Append(r.loads, L.log)],
                     st, mode, k)

Referensi(c, st, conns, mode, k) ==
    LET r == RefTabs(1, [s |-> Start, cache |-> c, conns |-> conns, loads |-> <<>>],
                     st, mode, k)
        s == Finish(Emit(r.s, "expander"))
    IN  Rendered("Referensi data", <<>>, r.loads, s, EmptyTable, EmptyTable,
                 r.cache, r.conns)

(* Halaman Peminjaman *)

\* The values st.sidebar.date_input can deliver between min_date and
\* max_date: a pair (start, end), the 1-tuple it delivers while only the
\* start of the range is picked, or a lone date.
DateInputs(min_date, max_date) ==
    LET D == {d \in Dates : min_date <= d /\ d <= max_date}
    IN  {[kind |-> "tuple", v |-> p] : p \in {q \in D \X D : q[1] <= q[2]}}
        \cup {[kind |-> "tuple", v |-> <<a>>] : a \in D}
        \cup {[kind |-> "date", v |-> <<a>>] : a \in D}

\* ["(Semua)"] + sorted(df[col].dropna().unique().tolist())
OptionList(df, col) == <<Semua>> \o Sorted(Unique(df, col))

MinDate(df) ==
    LET S == {DtDate(df.rows[i]["tgl_pinjam"]) : i \in 1..Len(df.rows)}
    IN  CHOOSE d \in S : \A e \in S : d <= e

MaxDate(df) ==
    LET S == {DtDate(df.rows[i]["tgl_pinjam"]) : i \in 1..Len(df.rows)}
    IN  CHOOSE d \in S : \A e \in S : e <= d

\* The selections the sidebar widgets of the page offer for the table df.
PeminjamanInputs(df) ==
    IF IsEmpty(df) THEN {<<>>}
    ELSE [date_range : DateInputs(MinDate(df), MaxDate(df)),
          fakultas : Range(OptionList(df, "nama_fakultas")),
          prodi : Range(OptionList(df, "nama_prodi")),
          status_anggota : Range(OptionList(df, "status_anggota")),
          status_peminjaman : Range(OptionList(df, "status_peminjaman")),
          kategori : Range(OptionList(df, "kategori_buku"))]

\* The widgets of a selection that are off their default: the whole range
\* of dates, "(Semua)" in every box.
ChangedPeminjaman(df, inp) ==
    {w \in {"fakultas", "prodi", "status_anggota", "status_peminjaman", "kategori"} :
        inp[w] # Semua}
    \cup (IF inp.date_range = [kind |-> "tuple", v |-> <<MinDate(df), MaxDate(df)>>]
          THEN {} ELSE {"date_range"})

\* Lines 312-316: the lists of the five select boxes.
PeminjamanOptions(df) ==
    [fakultas |-> OptionList(df, "nama_fakultas"),
     prodi |-> OptionList(df, "nama_prodi"),
     status_anggota |-> OptionList(df, "status_anggota"),
     status_peminjaman |-> OptionList(df, "status_peminjaman"),
     kategori |-> OptionList(df, "kategori_buku")]

\* The filter with a cell that is NULL passing every selection.
FilterEqKeepNull(df, col, pilih, site) ==
    LET eq == [i \in 1..Len(df.rows) |->
                 df.rows[i][col] = pilih \/ df.rows[i][col] = NULL]
    IN  IF pilih # Semua THEN Where(df, eq, site) ELSE df

\* df_filtered = df_filtered[df_filtered[col] == pilih], unless "(Semua)"
FilterEq(df, col, pilih, site) ==
    LET eq == [i \in 1..Len(df.rows) |-> df.rows[i][col] = pilih]
    IN  IF pilih # Semua THEN Where(df, eq, site) ELSE df

\* The filter with the loan timestamp itself held against the two dates
\* (a date standing for its midnight), not the day of the timestamp.
PeminjamanFilterByStamp(df, start_date, end_date, inp, tie) ==
    LET mask == [i \in 1..Len(df.rows) |->
                   /\ df.rows[i]["tgl_pinjam"] >= start_date * 100
                   /\ df.rows[i]["tgl_pinjam"] <= end_date * 100]
        f0 == Copy(Where(df, mask, "peminjaman.mask"), "peminjaman.df_filtered")
        f1 == FilterEq(f0, "nama_fakultas", inp.fakultas, "peminjaman.f1")
        f2 == FilterEq(f1, "nama_prodi", inp.prodi, "peminjaman.f2")
        f3 == FilterEq(f2, "status_anggota", inp.status_anggota, "peminjaman.f3")
        f4 == FilterEq(f3, "status_peminjaman", inp.status_peminjaman, "peminjaman.f4")
        f5 == FilterEq(f4, "kategori_buku", inp.kategori, "peminjaman.f5")
    IN  SortValues(f5, "tgl_pinjam", FALSE, tie, "peminjaman.sorted")

\* Lines 325-341: the date mask, the five category filters, the sort.
PeminjamanFilter(df, start_date, end_date, inp, tie) ==
    LET mask == [i \in 1..Len(df.rows) |->
                   /\ DtDate(df.rows[i]["tgl_pinjam"]) >= start_date
                   /\ DtDate(df.rows[i]["tgl_pinjam"]) <= end_date]
        f0 == Copy(Where(df, mask, "peminjaman.mask"), "peminjaman.df_filtered")
        f1 == FilterEq(f0, "nama_fakultas", inp.fakultas, "peminjaman.f1")
        f2 == FilterEq(f1, "nama_prodi", inp.prodi, "peminjaman.f2")
        f3 == FilterEq(f2, "status_anggota", inp.status_anggota, "peminjaman.f3")
        f4 == FilterEq(f3, "status_peminjaman", inp.status_peminjaman, "peminjaman.f4")
        f5 == FilterEq(f4, "kategori_buku", inp.kategori, "peminjaman.f5")
    IN  SortValues(f5, "tgl_pinjam", FALSE, tie, "peminjaman.sorted")

\* The number of loans counted over the table as loaded.
MetricJumlahOfBase(df, df_filtered) == Len(df.rows)

\* Line 368: st.metric("Jumlah peminjaman", len(df_filtered))
MetricJumlah(df, df_filtered) == Len(df_filtered.rows)

Peminjaman(c, st, conns, mode, tie, accepts, inp) ==
    LET l == "load_peminjaman_detail"
        L == LoadCall(l, c, st, mode, conns)
        df == L.df
        s1 == EmptyGuard(LoadGuard(Start, L), df)
        \* lines 307-310
        dr == inp.date_range
        s2 == IF dr.kind = "tuple" THEN Unpack2(s1, dr.v) ELSE s1
        start_date == dr.v[1]
        end_date == IF dr.kind = "tuple" THEN dr.v[2] ELSE dr.v[1]
        df_filtered == PeminjamanFilter(df, start_date, end_date, inp, tie)
        s3 == Emit(Emit(Emit(s2, "caption"), "dataframe"), "download_button")
        s4 == Emit(Emit(Emit(s3, "metric"), "metric"), "metric")
        \* lines 381-396
        s5 == ShowPair(s4, chart_peminjaman_per_status(df_filtered, tie), accepts)
        s7 == TabPair(s5, chart_top5_judul(df_filtered, tie), accepts)
        \* lines 399-405
        s8 == ShowPair(Emit(s7, "caption"), chart_hist_durasi(df_filtered, tie),
                       accepts)
        s9 == Finish(Emit(Emit(Emit(s8, "expander"), "expander"), "expander"))
    IN  IF ~Running(s1)
        THEN Rendered("Peminjaman", <<>>, <<L.log>>, s1, df, EmptyTable,
                      L.cache, L.conns)
        ELSE IF ~Running(s2)
        THEN Rendered("Peminjaman", inp, <<L.log>>, s2, df, EmptyTable,
                      L.cache, L.conns)
        ELSE WithSummary(
                 WithExport(
                     WithOptions(Rendered("Peminjaman", inp, <<L.log>>, s9, df,
                                          df_filtered, Held(L.cache, l, df),
                                          L.conns),
                                 PeminjamanOptions(df)),
                     df_filtered, ToCsv(df_filtered)),     \* lines 355, 357
                 MetricJumlah(df, df_filtered),
                 chart_peminjaman_per_status(df_filtered, tie).ret[2])  \* line 383

(* Halaman Anggota dan halaman Buku *)

Lower(ch) == CASE ch = "A" -> "a" [] ch = "B" -> "b" [] OTHER -> ch

\* Series.str.contains(pat, case=False, na=False) for a pattern of letters.
Contains(text, pat) ==
    /\ text # NULL
    /\ \E off \in 0..(Len(Chars[text]) - Len(pat)) :
          \A i \in 1..Len(pat) : Lower(Chars[text][off + i]) = Lower(pat[i])

\* What is typed into a search box: nothing, or some letters.
SearchTexts == {<<>>, <<"a">>, <<"B", "U">>, <<"g">>, <<"z">>}

Anggota(c, st, conns, mode, tie, accepts, search_nama) ==
    LET l == "load_anggota"
        L == LoadCall(l, c, st, mode, conns)
        df_anggota == L.df
        s1 == EmptyGuard(LoadGuard(Start, L), df_anggota)
        view0 == Copy(df_anggota, "anggota.view")
        match == [i \in 1..Len(view0.rows) |->
                    Contains(view0.rows[i]["nama_anggota"], search_nama)]
        df_anggota_view == IF search_nama # <<>>
                           THEN Where(view0, match, "anggota.search") ELSE view0
        s2 == Emit(Emit(s1, "dataframe"), "download_button")
        s3 == ShowOne(s2, chart_anggota_per_status(df_anggota_view, tie), accepts)
        s4 == ShowOne(s3, chart_anggota_per_fakultas(df_anggota_view, tie), accepts)
        s5 == Finish(Emit(s4, "expander"))
    IN  IF ~Running(s1)
        THEN Rendered("Anggota", <<>>, <<L.log>>, s1, df_anggota, EmptyTable,
                      L.cache, L.conns)
        ELSE WithExport(
                 Rendered("Anggota", [search |-> search_nama], <<L.log>>, s5,
                          df_anggota, df_anggota_view,
                          Held(L.cache, l, df_anggota), L.conns),
                 df_anggota_view, ToCsv(df_anggota_view))     \* lines 492, 494

BukuInputs(df) ==
    IF IsEmpty(df) THEN {<<>>}
    ELSE [search : SearchTexts,
          kategori : Range(OptionList(df, "kategori_buku")),
          status_buku : Range(OptionList(df, "status_buku"))]

\* The lists of the two select boxes taken from the table as searched.
BukuOptionsOfView(df_buku, df_buku_view) ==
    [kategori |-> OptionList(df_buku_view, "kategori_buku"),
     status_buku |-> OptionList(df_buku_view, "status_buku")]

\* Lines 577-578: the lists of the two select boxes.
BukuOptions(df_buku, df_buku_view) ==
    [kategori |-> OptionList(df_buku, "kategori_buku"),
     status_buku |-> OptionList(df_buku, "status_buku")]

ChangedBuku(inp) ==
    {w \in {"kategori", "status_buku"} : inp[w] # Semua}
    \cup (IF inp.search = <<>> THEN {} ELSE {"search"})

Buku(c, st, conns, mode, tie, accepts, inp) ==
    LET l == "load_buku"
        L == LoadCall(l, c, st, mode, conns)
        df_buku == L.df
        s1 == EmptyGuard(LoadGuard(Start, L), df_buku)
        view0 == Copy(df_buku, "buku.view")
        match == [i \in 1..Len(view0.rows) |->
                    Contains(view0.rows[i]["judul"], inp.search)]
        view1 == IF inp.search # <<>> THEN Where(view0, match, "buku.search")
                 ELSE view0
        view2 == [view1 EXCEPT !.ref = "buku.cols"]     \* df_buku_view[existing_cols]
        view3 == FilterEq(view2, "kategori_buku", inp.kategori, "buku.f1")
        df_buku_view == FilterEq(view3, "status_buku", inp.status_buku, "buku.f2")
        s2 == Emit(Emit(s1, "dataframe"), "download_button")
        s3 == ShowOne(s2, chart_buku_per_kategori(df_buku_view, tie), accepts)
        s4 == ShowPair(s3, chart_buku_per_status(df_buku_view, tie), accepts)
        s5 == ShowOne(s4, chart_buku_per_tahun(df_buku_view, tie), accepts)
        s6 == Finish(Emit(s5, "expander"))
    IN  IF ~Running(s1)
        THEN Rendered("Buku", <<>>, <<L.log>>, s1, df_buku, EmptyTable,
                      L.cache, L.conns)
        ELSE WithExport(
                 WithOptions(Rendered("Buku", inp, <<L.log>>, s6, df_buku,
                                      df_buku_view, Held(L.cache, l, df_buku),
                                      L.conns),
                             BukuOptions(df_buku, view2)),
                 df_buku_view, ToCsv(df_buku_view))     \* lines 592, 594

-----------------------------------------------------------------------------
(* Tables handed directly to a chart function *)

AnggotaPool == {SeedAnggota(i) : i \in 1..3}

BukuPool == {SeedBuku(i) : i \in 1..3}

Kind(fn) ==
    IF fn \in {"chart_anggota_per_status", "chart_anggota_per_fakultas"} THEN "anggota"
    ELSE IF fn \in {"chart_buku_per_kategori", "chart_buku_per_tahun",
                    "chart_buku_per_status"} THEN "buku"
    ELSE "peminjaman"

\* The columns a chart function reads.
UsedCols(fn) ==
    CASE fn = "chart_tren_bulanan_status" -> {"tgl_pinjam", "status_peminjaman"}
      [] fn = "chart_peminjaman_per_fakultas" -> {"nama_fakultas"}
      [] fn = "chart_peminjaman_per_kategori" -> {"kategori_buku"}
      [] fn = "chart_durasi_rata_per_fakultas" -> {"durasi_peminjaman", "nama_fakultas"}
      [] fn = "chart_hist_durasi" -> {"durasi_peminjaman"}
      [] fn = "chart_peminjaman_per_status" -> {"status_peminjaman"}
      [] fn = "chart_top5_judul" -> {"judul"}
      [] fn = "chart_anggota_per_status" -> {"status_anggota"}
      [] fn = "chart_anggota_per_fakultas" -> {"nama_fakultas"}
      [] fn = "chart_buku_per_kategori" -> {"kategori_buku"}
      [] fn = "chart_buku_per_tahun" -> {"tahun_terbit"}
      [] fn = "chart_buku_per_status" -> {"status_buku"}

\* The tables of one kind with up to MaxChartRows rows, as the loader of
\* that kind returns them.
FullTables(kind) ==
    LET Seqs(P) == UNION {[1..n -> P] : n \in 0..MaxChartRows}
        Loaded(l, st) == LoaderBody(l, st, "up", 0).df
    IN  IF kind = "peminjaman"
        THEN {Loaded("load_peminjaman_detail",
                     [peminjaman |-> t, anggota |-> <<>>, buku |-> <<>>]) :
                t \in Seqs(LoanPool)}
        ELSE IF kind = "anggota"
        THEN {Loaded("load_anggota",
                     [peminjaman |-> <<>>, anggota |-> t, buku |-> <<>>]) :
                t \in Seqs(AnggotaPool)}
        ELSE {Loaded("load_buku",
                     [peminjaman |-> <<>>, anggota |-> <<>>, buku |-> t]) :
                t \in Seqs(BukuPool)}

\* The titles of the catalogue, and the loan tables in which the i-th
\* title is borrowed cnt[i] times: the loans are taken round by round, in
\* each round one loan of every title that has one left, last title first.
TitlePool ==
    << "Algoritma", "Basis Data", "Fisika", "Jaringan", "Kalkulus", "Kimia",
       "Logika", "Statistika" >>

TitleLoans(cnt) ==
    LET grid == [k \in 1..(MaxTitles * MaxPerTitle) |->
                    [title |-> MaxTitles - ((k - 1) % MaxTitles),
                     round |-> ((k - 1) \div MaxTitles) + 1]]
        Has(g) == g.round <= cnt[g.title]
        kept == SelectSeq(grid, Has)
    IN  [k \in 1..Len(kept) |->
            [BaseLoan EXCEPT !.id_buku = kept[k].title,
                             !.judul = TitlePool[kept[k].title]]]

TitleTables ==
    {LoaderBody("load_peminjaman_detail",
                [peminjaman |-> TitleLoans(cnt), anggota |-> <<>>, buku |-> <<>>],
                "up", 0).df :
        cnt \in [1..MaxTitles -> 0..MaxPerTitle]}

DropCol(df, col) ==
    [df EXCEPT !.cols = @ \ {col},
               !.rows = [i \in 1..Len(@) |-> [c \in df.cols \ {col} |-> @[i][c]]]]

RenameCol(df, old, new) ==
    [df EXCEPT !.cols = (@ \ {old}) \cup {new},
               !.rows = [i \in 1..Len(@) |->
                           [c \in (df.cols \ {old}) \cup {new} |->
                               IF c = new THEN @[i][old] ELSE @[i][c]]]]

\* The inputs of fn: the full tables, the same tables without one of the
\* columns fn reads, for the book status the column named "status", and
\* for the top five the tables of up to MaxTitles titles.
ChartInputs(fn) ==
    FullTables(Kind(fn))
    \cup {DropCol(t, col) : t \in FullTables(Kind(fn)), col \in UsedCols(fn)}
    \cup (IF fn = "chart_buku_per_status"
          THEN {RenameCol(t, "status_buku", "status") : t \in FullTables("buku")}
          ELSE {})
    \cup (IF fn = "chart_top5_judul" THEN TitleTables ELSE {})

-----------------------------------------------------------------------------
(* Specifications *)

NoCall ==
    [fn |-> "none", input |-> EmptyTable, tie |-> "asis", exc |-> "",
     ret |-> <<>>, plotted |-> EmptyTable, arg |-> EmptyTable]

Init ==
    /\ store \in AppStores
    /\ cache = [l \in Loaders |-> <<>>]
    /\ openConns = 0
    /\ render = NoRender
    /\ runs = 0
    /\ call = NoCall

\* A script run changes the render, the cache and the open connections.
Apply(r) ==
    /\ render' = r.render
    /\ cache' = r.cache
    /\ openConns' = r.conns
    /\ runs' = runs + 1
    /\ UNCHANGED <<store, call>>

\* What the renderer does with None shows only in a run that hands it
\* None: such a run is taken with a renderer that shows nothing (shows)
\* and with one that raises (raises).
HandsNone(r) ==
    \E i \in 1..Len(r.render.events) : r.render.events[i] = "plotly_chart(None)"

RunPage(shows, raises) ==
    \/ Apply(shows)
    \/ HandsNone(shows) /\ Apply(raises)

\* The store matters to a loader call only when the cache holds no entry.
ModesFor(ls) == IF \A l \in ls : cache[l] # <<>> THEN {"up"} ELSE DbModes

PageRingkasan ==
    /\ runs < MaxRuns
    /\ openConns < MaxConns
    /\ \E mode \in ModesFor({"load_peminjaman_detail"}) :
          RunPage(Ringkasan(cache, store, openConns, mode, "asis", TRUE),
                  Ringkasan(cache, store, openConns, mode, "asis", FALSE))

\* The Peminjaman page with the store in one of modes, an unstable sort
\* leaving ties in one of ties, and at most n widgets off their default.
PeminjamanIn(modes, ties, n) ==
    \E mode \in modes, tie \in ties :
        LET df == LoadCall("load_peminjaman_detail", cache, store, mode,
                           openConns).df
        IN  \E inp \in PeminjamanInputs(df) :
               /\ inp # <<>> => Cardinality(ChangedPeminjaman(df, inp)) <= n
               /\ RunPage(Peminjaman(cache, store, openConns, mode, tie, TRUE, inp),
                          Peminjaman(cache, store, openConns, mode, tie, FALSE, inp))

PagePeminjaman ==
    /\ runs < MaxRuns
    /\ openConns < MaxConns
    /\ PeminjamanIn(ModesFor({"load_peminjaman_detail"}), {"asis"}, MaxChanged)

PageAnggota ==
    /\ runs < MaxRuns
    /\ openConns < MaxConns
    /\ \E mode \in ModesFor({"load_anggota"}), search_nama \in SearchTexts :
          RunPage(Anggota(cache, store, openConns, mode, "asis", TRUE, search_nama),
                  Anggota(cache, store, openConns, mode, "asis", FALSE, search_nama))

PageBuku ==
    /\ runs < MaxRuns
    /\ openConns < MaxConns
    /\ \E mode \in ModesFor({"load_buku"}) :
          LET df == LoadCall("load_buku", cache, store, mode, openConns).df
          IN  \E inp \in BukuInputs(df) :
                 /\ inp # <<>> => Cardinality(ChangedBuku(inp)) <= MaxChanged
                 /\ RunPage(Buku(cache, store, openConns, mode, "asis", TRUE, inp),
                            Buku(cache, store, openConns, mode, "asis", FALSE, inp))

PageReferensi ==
    /\ runs < MaxRuns
    /\ openConns < MaxConns
    /\ \E mode \in ModesFor(Range(RefLoaders)) \ {"baddate"} :
          \E k \in IF mode = "up" THEN {0} ELSE 0..(Len(RefLoaders) - 1) :
             Apply(Referensi(cache, store, openConns, mode, k))

\* The library's data changes behind the dashboard.
StoreChange ==
    /\ store' \in AppStores \ {store}
    /\ UNCHANGED <<cache, openConns, render, runs, call>>

Next ==
    \/ PageRingkasan
    \/ PagePeminjaman
    \/ PageAnggota
    \/ PageBuku
    \/ PageReferensi
    \/ StoreChange

Spec == Init /\ [][Next]_vars

\* One run of the Peminjaman page over every loan table of LoanStores and
\* every selection of its widgets, the store up.
InitFilter ==
    /\ store \in LoanStores
    /\ cache = [l \in Loaders |-> <<>>]
    /\ openConns = 0
    /\ render = NoRender
    /\ runs = 0
    /\ call = NoCall

PagePeminjamanOnce ==
    /\ render = NoRender
    /\ PeminjamanIn({"up"}, TieOrders, Cardinality(LoanCols))

NextFilter == PagePeminjamanOnce

SpecFilter == InitFilter /\ [][NextFilter]_vars

\* The books of the list specification: two books that differ in title,
\* category and status, and a book whose status is not recorded.
BukuListPool ==
    {SeedBuku(1), SeedBuku(2), [SeedBuku(3) EXCEPT !.status_buku = NULL]}

\* The stores of the list specification: up to MaxRows books.
BukuStores ==
    {[peminjaman |-> <<>>, anggota |-> <<>>, buku |-> t] :
        t \in UNION {[1..n -> BukuListPool] : n \in 0..MaxRows}}

\* One run of the Peminjaman page or of the Buku page over every table of
\* loans or of books and every selection of its widgets, the store up.
InitLists ==
    /\ store \in LoanStores \cup BukuStores
    /\ cache = [l \in Loaders |-> <<>>]
    /\ openConns = 0
    /\ render = NoRender
    /\ runs = 0
    /\ call = NoCall

PageBukuOnce ==
    /\ render = NoRender
    /\ \E tie \in TieOrders :
          \E inp \in BukuInputs(LoadCall("load_buku", cache, store, "up",
                                         openConns).df) :
             RunPage(Buku(cache, store, openConns, "up", tie, TRUE, inp),
                     Buku(cache, store, openConns, "up", tie, FALSE, inp))

NextLists == PagePeminjamanOnce \/ PageBukuOnce

SpecLists == InitLists /\ [][NextLists]_vars

\* The members of the export specification: two members that differ in
\* name, status, program and faculty, and a member with no name recorded.
AnggotaListPool ==
    {SeedAnggota(1), SeedAnggota(2), [SeedAnggota(3) EXCEPT !.nama_anggota = NULL]}

\* The stores of the export specification: up to MaxRows members.
AnggotaStores ==
    {[peminjaman |-> <<>>, anggota |-> t, buku |-> <<>>] :
        t \in UNION {[1..n -> AnggotaListPool] : n \in 0..MaxRows}}

\* One run of a page with an export (Peminjaman, Anggota, Buku) over every
\* table of loans, of members or of books and every selection of the
\* page's widgets, the store up.
InitExport ==
    /\ store \in LoanStores \cup AnggotaStores \cup BukuStores
    /\ cache = [l \in Loaders |-> <<>>]
    /\ openConns = 0
    /\ render = NoRender
    /\ runs = 0
    /\ call = NoCall

PageAnggotaOnce ==
    /\ render = NoRender
    /\ \E tie \in TieOrders, search_nama \in SearchTexts :
          RunPage(Anggota(cache, store, openConns, "up", tie, TRUE, search_nama),
                  Anggota(cache, store, openConns, "up", tie, FALSE, search_nama))

NextExport == PagePeminjamanOnce \/ PageAnggotaOnce \/ PageBukuOnce

SpecExport == InitExport /\ [][NextExport]_vars

\* The catalogue of the databases of the query specification: a faculty,
\* a program of it and a program of no faculty, a member of each program
\* and a member of none, two books with title and classification, three
\* authors, one member of staff.
Catalogue ==
    [fakultas |-> << ("f.id_fakultas" :> 1) @@ ("f.nama_fakultas" :> "Teknik") >>,
     program_studi |->
        << ("ps.id_prodi" :> 1) @@ ("ps.nama_prodi" :> "Informatika")
             @@ ("ps.id_fakultas" :> 1),
           ("ps.id_prodi" :> 2) @@ ("ps.nama_prodi" :> "Manajemen")
             @@ ("ps.id_fakultas" :> NoId) >>,
     anggota |->
        << ("a.id_anggota" :> 1) @@ ("a.status" :> "Mahasiswa")
             @@ ("a.nama_anggota" :> "Ani") @@ ("a.id_prodi" :> 1),
           ("a.id_anggota" :> 2) @@ ("a.status" :> "Dosen")
             @@ ("a.nama_anggota" :> "Budi") @@ ("a.id_prodi" :> NoId),
           ("a.id_anggota" :> 3) @@ ("a.status" :> "Mahasiswa")
             @@ ("a.nama_anggota" :> "Ani") @@ ("a.id_prodi" :> 2) >>,
     judul |-> << ("j.id_judul" :> 1) @@ ("j.judul" :> "Algoritma"),
                  ("j.id_judul" :> 2) @@ ("j.judul" :> "Basis Data") >>,
     klasifikasi |->
        << ("k.id_klasifikasi" :> 1) @@ ("k.kategori_buku" :> "Sains"),
           ("k.id_klasifikasi" :> 2) @@ ("k.kategori_buku" :> "Fiksi") >>,
     buku |->
        << ("b.id_buku" :> 1) @@ ("b.id_judul" :> 1) @@ ("b.id_klasifikasi" :> 1)
             @@ ("b.tahun_terbit" :> 2020) @@ ("b.status" :> "Tersedia"),
           ("b.id_buku" :> 2) @@ ("b.id_judul" :> 2) @@ ("b.id_klasifikasi" :> 2)
             @@ ("b.tahun_terbit" :> 2021) @@ ("b.status" :> "Dipinjam") >>,
     pengarang |->
        << ("pg.id_pengarang" :> 1) @@ ("pg.kode_pengarang" :> "PG1"),
           ("pg.id_pengarang" :> 2) @@ ("pg.kode_pengarang" :> "PG2"),
           ("pg.id_pengarang" :> 3) @@ ("pg.kode_pengarang" :> "PG3") >>,
     petugas |-> << ("pt.id_petugas" :> 1) >>,
     peminjaman |-> <<>>,
     buku_pengarang |-> <<>>]

\* An id that no row of the catalogue has.
Dangling == 9

\* The loan of member ia by book ib processed by staff ip, its id to come.
DbLoan(ia, ib, ip) ==
    ("p.id_peminjaman" :> NoId) @@ ("p.tgl_pinjam" :> <<24, 1, 30, 0>>)
    @@ ("p.tgl_kembali" :> <<<<24, 2, 1, 0>>>>) @@ ("p.durasi_peminjaman" :> <<2>>)
    @@ ("p.denda_buku" :> 0)
    @@ ("p.id_anggota" :> ia) @@ ("p.id_buku" :> ib) @@ ("p.id_petugas" :> ip)

\* The tables peminjaman of up to MaxLoans loans, each of a member, a book
\* and a member of staff of the catalogue or of none; the ids are 1, 2, ...
DbLoanTables ==
    LET pool == {DbLoan(ia, ib, ip) : ia \in {1, 2, 3, Dangling},
                                      ib \in {1, Dangling}, ip \in {1, Dangling}}
    IN  {[i \in 1..Len(t) |-> ("p.id_peminjaman" :> i) @@ t[i]] :
            t \in UNION {[1..n -> pool] : n \in 0..MaxLoans}}

\* The tables buku_pengarang of up to MaxLinks links of a book to an author
\* of the catalogue or to none, in any order of rows; a book has no two
\* authors of the same urutan_pengarang.
DbLinkTables ==
    LET pool == {("bp.id_buku" :> b) @@ ("bp.id_pengarang" :> a)
                   @@ ("bp.urutan_pengarang" :> u) :
                    b \in {1, 2}, a \in {1, 2, 3, Dangling}, u \in 1..MaxLinks}
    IN  {t \in UNION {[1..n -> pool] : n \in 0..MaxLinks} :
            \A i, j \in 1..Len(t) :
                (i # j /\ t[i]["bp.id_buku"] = t[j]["bp.id_buku"])
                => t[i]["bp.urutan_pengarang"] # t[j]["bp.urutan_pengarang"]}

Databases ==
    {[Catalogue EXCEPT !.peminjaman = t] : t \in DbLoanTables}
    \cup {[Catalogue EXCEPT !.buku_pengarang = t] : t \in DbLinkTables}

\* One call of a loader that joins tables, over every database of
\* Databases, the store up and the cache empty.
InitSql ==
    /\ store \in {StoreOf(db) : db \in Databases}
    /\ cache = [l \in Loaders |-> <<>>]
    /\ openConns = 0
    /\ render = NoRender
    /\ runs = 0
    /\ call = NoCall

LoadOnce ==
    /\ call = NoCall
    /\ \E l \in {"load_peminjaman_detail", "load_anggota", "load_buku"} :
          LET r == LoadCall(l, cache, store, "up", openConns)
          IN  /\ call' = [fn |-> l, exc |-> r.exc, df |-> r.df]
              /\ cache' = r.cache
              /\ openConns' = r.conns
    /\ UNCHANGED <<store, render, runs>>

NextSql == LoadOnce

SpecSql == InitSql /\ [][NextSql]_vars

\* The chart functions called directly on every table of ChartInputs.
InitCharts ==
    /\ store = Snapshot(0)
    /\ cache = [l \in Loaders |-> <<>>]
    /\ openConns = 0
    /\ render = NoRender
    /\ runs = 0
    /\ call = NoCall

CallChart ==
    /\ call = NoCall
    /\ \E fn \in ChartFns, tie \in TieOrders :
        \E df \in ChartInputs(fn) :
          LET r == Chart(fn, df, tie)
          IN  call' = [fn |-> fn, input |-> df, tie |-> tie, exc |-> r.exc,
                       ret |-> r.ret, plotted |-> r.plotted, arg |-> r.arg]
    /\ UNCHANGED <<store, cache, openConns, render, runs>>

NextCharts == CallChart

SpecCharts == InitCharts /\ [][NextCharts]_vars

-----------------------------------------------------------------------------
(* Properties of the Peminjaman filter (SpecFilter) *)

\* The page showed e in its last run.
Shown(e) == \E i \in 1..Len(render.events) : render.events[i] = e

\* The filter of the last run was reached: the run got past the widgets.
FilterRan == render.page = "Peminjaman" /\ render.view.ref # "none"

\* Row r lies in [start, end] by its day and equals every selection that
\* is not "(Semua)".
Keeps(r, start, end, inp) ==
    /\ start <= r["tgl_pinjam"] \div 100
    /\ r["tgl_pinjam"] \div 100 <= end
    /\ inp.fakultas = Semua \/ r["nama_fakultas"] = inp.fakultas
    /\ inp.prodi = Semua \/ r["nama_prodi"] = inp.prodi
    /\ inp.status_anggota = Semua \/ r["status_anggota"] = inp.status_anggota
    /\ inp.status_peminjaman = Semua \/ r["status_peminjaman"] = inp.status_peminjaman
    /\ inp.kategori = Semua \/ r["kategori_buku"] = inp.kategori

\* The view holds each base row that Keeps admits once, and nothing else.
ViewIsExactly(start, end) ==
    LET kept == {i \in 1..Len(render.base.rows) :
                    Keeps(render.base.rows[i], start, end, render.inputs)}
    IN  /\ Len(render.view.rows) = Cardinality(kept)
        /\ {render.view.rows[j] : j \in 1..Len(render.view.rows)}
             = {render.base.rows[i] : i \in kept}

IsPair(dr) == dr.kind = "tuple" /\ Len(dr.v) = 2

\* C1: on the Peminjaman page, for a date range (start, end) and any five
\* selections, the filtered table holds exactly the base rows whose loan
\* day lies in [start, end], both ends included, and that equal every
\* selection other than "(Semua)": none missing, none extra.
C1_FilterExact ==
    (render.page = "Peminjaman" /\ render.inputs # <<>>
        /\ IsPair(render.inputs.date_range))
    => /\ FilterRan
       /\ ViewIsExactly(render.inputs.date_range.v[1], render.inputs.date_range.v[2])

\* A run with a proper range ending on a day that has an afternoon loan,
\* and a faculty selected, that kept some rows and dropped others.
C1_Witness ==
    /\ FilterRan
    /\ IsPair(render.inputs.date_range)
    /\ render.inputs.date_range.v[1] < render.inputs.date_range.v[2]
    /\ render.inputs.fakultas # Semua
    /\ 0 < Len(render.view.rows)
    /\ Len(render.view.rows) < Len(render.base.rows)
    /\ \E j \in 1..Len(render.view.rows) :
          /\ render.view.rows[j]["tgl_pinjam"] \div 100 = render.inputs.date_range.v[2]
          /\ render.view.rows[j]["tgl_pinjam"] % 100 # 0

\* A date selection of the single day: a lone date, the pair (d, d), or a
\* sequence holding only the start date.
SingleDay(dr) ==
    \/ dr.kind = "date"
    \/ dr.kind = "tuple" /\ Len(dr.v) = 1
    \/ IsPair(dr) /\ dr.v[1] = dr.v[2]

\* C6: for every value the date input delivers for the single day d, the
\* page derives start = end = d without raising and the filtered table is
\* exactly the rows of day d (that pass the other selections).
C6_SingleDayHandled ==
    (render.page = "Peminjaman" /\ render.inputs # <<>>
        /\ SingleDay(render.inputs.date_range))
    => /\ FilterRan
       /\ ViewIsExactly(render.inputs.date_range.v[1], render.inputs.date_range.v[1])

-----------------------------------------------------------------------------
(* Properties of the chart functions (SpecCharts) *)

\* A column the last called function groups or aggregates on is not in
\* its input (chart_buku_per_status reads "status" for "status_buku").
GroupingAbsent ==
    /\ call.fn # "none"
    /\ UsedCols(call.fn) \ call.input.cols # {}
    /\ call.fn = "chart_buku_per_status" => "status" \notin call.input.cols

\* The call returned, with None in the figure position.
ReturnedSentinel == call.exc = "" /\ call.ret[1] = "None"

\* C3: every chart function given a table of zero rows that has all the
\* expected columns returns None in the figure position and does not raise.
C3_EmptyTableGivesSentinel ==
    (call.fn # "none" /\ IsEmpty(call.input) /\ UsedCols(call.fn) \subseteq call.input.cols)
    => ReturnedSentinel

\* C4: every chart function whose grouping or aggregated column is absent
\* from its input returns None in the figure position and does not raise.
C4_AbsentColumnGivesSentinel == GroupingAbsent => ReturnedSentinel

-----------------------------------------------------------------------------
(* Properties of the application (Spec) *)

\* A load of the last run failed.
LoadFailed == \E i \in 1..Len(render.loads) : render.loads[i].exc # ""

\* C2: on every page, when a loader call fails the page shows an error
\* message and halts: the message is the last thing the run does.
C2_LoadFailureHalts ==
    LoadFailed
    => /\ render.status = "stopped"
       /\ Shown("error")
       /\ render.events[Len(render.events)] \in {"error", "exception"}

\* The last run reached its filter and the filter left no row.
EmptyView ==
    /\ render.page \in {"Peminjaman", "Anggota", "Buku"}
    /\ render.view.ref # "none"
    /\ IsEmpty(render.view)

\* C5: when the selection of a page leaves zero rows the page shows the
\* "no data" placeholder, hands no None to the chart renderer, and the
\* run continues to its end.
C5_EmptyViewShowsPlaceholder ==
    EmptyView
    => /\ Shown("info(Data tidak tersedia)")
       /\ ~Shown("plotly_chart(None)")
       /\ render.status = "done"

\* The step is a script run.
IsRun == runs' # runs

\* C7: no run changes a table the loader cache holds: an entry stays what
\* it was, and a new entry is the table the loader returned, whatever the
\* run computed from it afterwards.
C7_CacheNeverMutated ==
    [][\A l \in Loaders :
          /\ cache[l] # <<>> => cache'[l] = cache[l]
          /\ (cache[l] = <<>> /\ cache'[l] # <<>>)
             => \E i \in 1..Len(render'.loads) :
                   /\ render'.loads[i].loader = l
                   /\ render'.loads[i].exc = ""
                   /\ ~render'.loads[i].hit
                   /\ cache'[l] = <<render'.loads[i].df>>]_vars

\* A run of Ringkasan served from the cache that derived the month column
\* and plotted the trend, in a session that also holds the book table.
C7_Witness ==
    /\ render.page = "Ringkasan"
    /\ render.loads[1].hit
    /\ Shown("plotly_chart(Figure)")
    /\ render.status = "done"
    /\ cache["load_buku"] # <<>>

\* C8: whatever the outcome of a loader call, its connection has been
\* released when the call ends: no connection is ever left open.
C8_NoOpenConnection == openConns = 0

\* C9: a failed loader call stores no entry for its loader and changes the
\* entry of no other loader.
C9_FailedLoadStoresNothing ==
    [][IsRun =>
          \A i \in 1..Len(render'.loads) :
             render'.loads[i].exc # ""
             => /\ render'.loads[i].touched = {}
                /\ cache'[render'.loads[i].loader] = <<>>
                /\ \A m \in Loaders \ {render'.loads[j].loader :
                                          j \in 1..Len(render'.loads)} :
                      cache'[m] = cache[m]]_vars

\* A load failed in a session whose cache holds entries of other loaders.
C9_Witness ==
    /\ LoadFailed
    /\ \E i \in 1..Len(render.loads) :
          /\ render.loads[i].exc # ""
          /\ \E m \in Loaders \ {render.loads[i].loader} : cache[m] # <<>>
    /\ runs > 1

\* C10: once a loader has an entry, every later call of it opens no
\* connection, issues no query and returns the entry, which stays, also
\* when the store has changed meanwhile.
C10_Memoized ==
    [][IsRun =>
          \A i \in 1..Len(render'.loads) :
             cache[render'.loads[i].loader] # <<>>
             => /\ render'.loads[i].hit
                /\ ~render'.loads[i].opened
                /\ ~render'.loads[i].queried
                /\ render'.loads[i].exc = ""
                /\ render'.loads[i].df = cache[render'.loads[i].loader][1]
                /\ cache'[render'.loads[i].loader] = cache[render'.loads[i].loader]]_vars

\* A run served the loan table from its entry while the store holds other
\* loans than the entry.
C10_Witness ==
    /\ render.page \in {"Ringkasan", "Peminjaman"}
    /\ Len(render.loads) = 1
    /\ render.loads[1].hit
    /\ Len(render.loads[1].df.rows) # Len(store.peminjaman)

-----------------------------------------------------------------------------
(* Properties of the aggregations (SpecCharts) *)

\* The sum of the column "jumlah" of a table of counts.
SumJumlah(t) == SumSeq([i \in 1..Len(t.rows) |-> t.rows[i]["jumlah"]])

\* The last call was of one of fns, on a table holding the column col.
CalledOn(fns, col) == call.fn \in fns /\ col \in call.input.cols

\* C11: the per-faculty counts of chart_peminjaman_per_fakultas and
\* chart_anggota_per_fakultas count every input row, a row without a
\* faculty under a null group: the counts add up to the number of rows.
C11_NullFacultyCounted ==
    CalledOn({"chart_peminjaman_per_fakultas", "chart_anggota_per_fakultas"},
             "nama_fakultas")
    => /\ call.exc = ""
       /\ SumJumlah(call.plotted) = Len(call.input.rows)

\* The rows of the last call's input that have a duration.
HasDurasi(i) == call.input.rows[i]["durasi_peminjaman"] # <<>>

\* The faculties with at least one row that has a duration.
MeasuredFaculties ==
    {call.input.rows[i]["nama_fakultas"] :
        i \in {j \in 1..Len(call.input.rows) : HasDurasi(j)}} \ {NULL}

\* The mean duration of faculty f as the fraction <<sum, count>> over its
\* rows that have a duration.
MeanOf(f) ==
    LET In(i) == call.input.rows[i]["nama_fakultas"] = f /\ HasDurasi(i)
    IN  << SumSeq([i \in 1..Len(call.input.rows) |->
                     IF In(i) THEN call.input.rows[i]["durasi_peminjaman"][1] ELSE 0]),
           Cardinality({i \in 1..Len(call.input.rows) : In(i)}) >>

\* C12: chart_durasi_rata_per_fakultas returns one row for each faculty
\* that has a row with a duration and for no other, and the row holds the
\* arithmetic mean of the durations that are not null: a null duration
\* counts neither as a zero nor as a row, and a faculty without a duration
\* is absent.
C12_MeanOverNonNull ==
    (call.fn = "chart_durasi_rata_per_fakultas"
        /\ {"durasi_peminjaman", "nama_fakultas"} \subseteq call.input.cols)
    => /\ call.exc = ""
       /\ Len(call.ret[2].rows) = Cardinality(MeasuredFaculties)
       /\ {call.ret[2].rows[k]["nama_fakultas"] : k \in 1..Len(call.ret[2].rows)}
            = MeasuredFaculties
       /\ call.ret[1] = "Figure"
          => \A k \in 1..Len(call.ret[2].rows) :
                call.ret[2].rows[k]["rata_durasi"]
                    = MeanOf(call.ret[2].rows[k]["nama_fakultas"])

\* A call over the loans of two faculties, one of them without a duration:
\* a figure is returned and that faculty is left out.
C12_Witness ==
    /\ call.fn = "chart_durasi_rata_per_fakultas"
    /\ call.exc = ""
    /\ call.ret[1] = "Figure"
    /\ Len(call.input.rows) = 2
    /\ \E i \in 1..2 : ~HasDurasi(i) /\ call.input.rows[i]["nama_fakultas"] # NULL
    /\ call.input.rows[1]["nama_fakultas"] # call.input.rows[2]["nama_fakultas"]
    /\ Len(call.ret[2].rows) = 1

\* The functions that rank their counts, and the column the last call
\* grouped on.
RankedFns ==
    {"chart_peminjaman_per_fakultas", "chart_peminjaman_per_kategori",
     "chart_anggota_per_fakultas", "chart_buku_per_status", "chart_top5_judul"}

RankedKey ==
    CASE call.fn \in {"chart_peminjaman_per_fakultas", "chart_anggota_per_fakultas"}
            -> "nama_fakultas"
      [] call.fn = "chart_peminjaman_per_kategori" -> "kategori_buku"
      [] call.fn = "chart_top5_judul" -> "judul"
      [] call.fn = "chart_buku_per_status"
            -> IF "status_buku" \in call.input.cols THEN "status_buku" ELSE "status"
      [] OTHER -> NULL

\* The first row of the last call's input that belongs to group g.
FirstRowOf(g) ==
    CHOOSE i \in 1..Len(call.input.rows) :
        /\ call.input.rows[i][RankedKey] = g
        /\ \A j \in 1..(i - 1) : call.input.rows[j][RankedKey] # g

\* C13: the rows of every ranked count are in non-increasing order of
\* count, and groups of equal count are in the order in which their first
\* rows occur in the input.
C13_RankedStable ==
    (call.fn \in RankedFns /\ RankedKey \in call.input.cols)
    => /\ call.exc = ""
       /\ \A k, m \in 1..Len(call.plotted.rows) :
             k < m
             => /\ call.plotted.rows[k]["jumlah"] >= call.plotted.rows[m]["jumlah"]
                /\ call.plotted.rows[k]["jumlah"] = call.plotted.rows[m]["jumlah"]
                   => FirstRowOf(call.plotted.rows[k][RankedKey])
                        < FirstRowOf(call.plotted.rows[m][RankedKey])

\* The titles of the last call's input, and the loans of title t in it.
TitlesIn == {call.input.rows[i]["judul"] : i \in 1..Len(call.input.rows)} \ {NULL}

LoansOf(t) == Cardinality({i \in 1..Len(call.input.rows) : call.input.rows[i]["judul"] = t})

\* C14: chart_top5_judul returns min(5, number of distinct titles) rows,
\* each a title of the input with its number of loans and no title twice;
\* every title left out has at most as many loans as every title returned.
C14_TopFive ==
    (call.fn = "chart_top5_judul" /\ "judul" \in call.input.cols)
    => /\ call.exc = ""
       /\ LET out == call.ret[2].rows
              returned == {out[k]["judul"] : k \in 1..Len(out)}
          IN  /\ Len(out) = IF Cardinality(TitlesIn) < 5 THEN Cardinality(TitlesIn) ELSE 5
              /\ Cardinality(returned) = Len(out)
              /\ returned \subseteq TitlesIn
              /\ \A k \in 1..Len(out) : out[k]["jumlah"] = LoansOf(out[k]["judul"])
              /\ \A t \in TitlesIn \ returned, r \in returned : LoansOf(t) <= LoansOf(r)

\* A call over more than five titles, with a title left out that has as
\* many loans as a title returned and another returned that has more.
C14_Witness ==
    /\ call.fn = "chart_top5_judul"
    /\ call.exc = ""
    /\ Cardinality(TitlesIn) > 5
    /\ Len(call.ret[2].rows) = 5
    /\ \E k, m \in 1..5, t \in TitlesIn :
          /\ \A j \in 1..5 : call.ret[2].rows[j]["judul"] # t
          /\ LoansOf(t) = call.ret[2].rows[k]["jumlah"]
          /\ LoansOf(t) < call.ret[2].rows[m]["jumlah"]

\* The statuses of the last call's input.
StatusesIn ==
    {call.input.rows[i]["status_peminjaman"] : i \in 1..Len(call.input.rows)}

\* C15: for a loan table that is not empty, chart_peminjaman_per_status
\* returns one row for each status present, holding the number of input
\* rows of that status, and the counts add up to the number of input rows.
C15_StatusCountsPartition ==
    (call.fn = "chart_peminjaman_per_status"
        /\ "status_peminjaman" \in call.input.cols /\ ~IsEmpty(call.input))
    => /\ call.exc = ""
       /\ call.ret[1] = "Figure"
       /\ Len(call.ret[2].rows) = Cardinality(StatusesIn)
       /\ {call.ret[2].rows[k]["status_peminjaman"] : k \in 1..Len(call.ret[2].rows)}
            = StatusesIn
       /\ \A k \in 1..Len(call.ret[2].rows) :
             call.ret[2].rows[k]["jumlah"]
               = Cardinality({i \in 1..Len(call.input.rows) :
                     call.input.rows[i]["status_peminjaman"]
                       = call.ret[2].rows[k]["status_peminjaman"]})
       /\ SumJumlah(call.ret[2]) = Len(call.input.rows)

\* A call over an outstanding and a completed loan: two rows of one loan.
C15_Witness ==
    /\ call.fn = "chart_peminjaman_per_status"
    /\ call.exc = ""
    /\ Len(call.input.rows) = 2
    /\ Len(call.ret[2].rows) = 2
    /\ SumJumlah(call.ret[2]) = 2

\* Rows i and j of the last call's input were lent in the same calendar
\* month: the same month of the same year.
SameMonth(i, j) ==
    LET ti == call.input.rows[i]["tgl_pinjam"]
        tj == call.input.rows[j]["tgl_pinjam"]
    IN  /\ ti \div 1000000 = tj \div 1000000
        /\ (ti \div 10000) % 100 = (tj \div 10000) % 100

\* The rows of the trend table that row i of the input is counted in.
TrendRowsOf(i) ==
    {k \in 1..Len(call.plotted.rows) :
        /\ call.plotted.rows[k]["bulan"] = ToPeriodM(call.input.rows[i]["tgl_pinjam"])
        /\ call.plotted.rows[k]["status_peminjaman"]
             = call.input.rows[i]["status_peminjaman"]}

\* C16: the trend table of chart_tren_bulanan_status has exactly one row
\* for each (month, status) that occurs in the input and none for a pair
\* that does not; its count is the number of loans of that calendar month
\* and status; loans share a month bucket exactly when they were lent in
\* the same calendar month.
C16_MonthlyTrend ==
    (call.fn = "chart_tren_bulanan_status"
        /\ {"tgl_pinjam", "status_peminjaman"} \subseteq call.input.cols)
    => /\ call.exc = ""
       /\ \A i \in 1..Len(call.input.rows) :
             /\ Cardinality(TrendRowsOf(i)) = 1
             /\ \A k \in TrendRowsOf(i) :
                   call.plotted.rows[k]["jumlah"]
                     = Cardinality({j \in 1..Len(call.input.rows) :
                           /\ SameMonth(i, j)
                           /\ call.input.rows[j]["status_peminjaman"]
                                = call.input.rows[i]["status_peminjaman"]})
             /\ \A j \in 1..Len(call.input.rows) :
                   (ToPeriodM(call.input.rows[i]["tgl_pinjam"])
                      = ToPeriodM(call.input.rows[j]["tgl_pinjam"]))
                   <=> SameMonth(i, j)
       /\ \A k \in 1..Len(call.plotted.rows) :
             /\ call.plotted.rows[k]["jumlah"] > 0
             /\ \E i \in 1..Len(call.input.rows) : k \in TrendRowsOf(i)

\* A call over two completed loans of January, one a year after the other:
\* two rows, one for each month.
C16_Witness ==
    /\ call.fn = "chart_tren_bulanan_status"
    /\ call.exc = ""
    /\ Len(call.input.rows) = 2
    /\ call.input.rows[1]["status_peminjaman"] = call.input.rows[2]["status_peminjaman"]
    /\ (call.input.rows[1]["tgl_pinjam"] \div 10000) % 100
         = (call.input.rows[2]["tgl_pinjam"] \div 10000) % 100
    /\ ~SameMonth(1, 2)
    /\ Len(call.plotted.rows) = 2

-----------------------------------------------------------------------------
(* Properties of the Peminjaman page (SpecFilter) *)

\* C17: the filtered table of the Peminjaman page is ordered by loan date
\* descending, whatever the order of the base table and the selections:
\* of two consecutive rows the first was lent no earlier than the second.
C17_ViewNewestFirst ==
    FilterRan
    => \A k \in 1..(Len(render.view.rows) - 1) :
          render.view.rows[k]["tgl_pinjam"] >= render.view.rows[k + 1]["tgl_pinjam"]

\* A run with a faculty selected over a base table whose older loan comes
\* first: both loans are kept and the view has the newer one first.
C17_Witness ==
    /\ FilterRan
    /\ render.inputs.fakultas # Semua
    /\ Len(render.base.rows) = 2
    /\ render.base.rows[1]["tgl_pinjam"] < render.base.rows[2]["tgl_pinjam"]
    /\ Len(render.view.rows) = 2
    /\ render.view.rows[1]["tgl_pinjam"] > render.view.rows[2]["tgl_pinjam"]

-----------------------------------------------------------------------------
(* Properties of the select boxes (SpecLists) *)

\* list is "(Semua)" followed by the distinct values of column col of the
\* base table that are not null, in ascending order, each once.
IsOptionListOf(list, col) ==
    /\ Len(list) >= 1
    /\ list[1] = Semua
    /\ {list[k] : k \in 2..Len(list)}
         = {render.base.rows[i][col] : i \in 1..Len(render.base.rows)} \ {NULL}
    /\ \A k \in 2..(Len(list) - 1) : Rank(list[k]) < Rank(list[k + 1])

\* The last run got past the load of its page and built its view.
ViewBuilt(pg) == render.page = pg /\ render.view.ref # "none"

\* C18: every list of a select box of the Peminjaman page and of the Buku
\* page is "(Semua)" followed by the sorted distinct non-null values of its
\* column in the base table as loaded, whatever the date range, the search
\* text and the other selections of the run.
C18_OptionListsFromBase ==
    /\ ViewBuilt("Peminjaman")
       => /\ render.options # <<>>
          /\ IsOptionListOf(render.options.fakultas, "nama_fakultas")
          /\ IsOptionListOf(render.options.prodi, "nama_prodi")
          /\ IsOptionListOf(render.options.status_anggota, "status_anggota")
          /\ IsOptionListOf(render.options.status_peminjaman, "status_peminjaman")
          /\ IsOptionListOf(render.options.kategori, "kategori_buku")
    /\ ViewBuilt("Buku")
       => /\ render.options # <<>>
          /\ IsOptionListOf(render.options.kategori, "kategori_buku")
          /\ IsOptionListOf(render.options.status_buku, "status_buku")

\* A run of the Buku page whose search keeps one of two books: the lists
\* still offer the category and the status of the book searched away.
C18_Witness ==
    /\ ViewBuilt("Buku")
    /\ render.inputs.search # <<>>
    /\ Len(render.base.rows) = 2
    /\ Len(render.view.rows) = 1
    /\ Len(render.options.kategori) = 3
    /\ Len(render.options.status_buku) = 3

-----------------------------------------------------------------------------
(* Properties of the queries (SpecSql) *)

\* Table tbl of the database has a row whose column key is id.
HasRow(tbl, key, id) == \E k \in 1..Len(tbl) : tbl[k][key] = id

\* The rows of the table the last call returned that carry loan id.
RowsOfLoan(id) ==
    {k \in 1..Len(call.df.rows) : call.df.rows[k]["id_peminjaman"] = id}

\* The faculty of member ia through its program; NULL when the member has
\* no program or the program no faculty.
FacultyOf(ia) ==
    LET db == store.db
        Via(a, ps, f) == /\ db.anggota[a]["a.id_anggota"] = ia
                         /\ db.program_studi[ps]["ps.id_prodi"] = db.anggota[a]["a.id_prodi"]
                         /\ db.fakultas[f]["f.id_fakultas"]
                              = db.program_studi[ps]["ps.id_fakultas"]
        F == {db.fakultas[f]["f.nama_fakultas"] :
                 <<a, ps, f>> \in {t \in (1..Len(db.anggota)) \X (1..Len(db.program_studi))
                                          \X (1..Len(db.fakultas)) :
                                      Via(t[1], t[2], t[3])}}
    IN  IF F = {} THEN NULL ELSE CHOOSE x \in F : TRUE

\* C19: load_peminjaman_detail returns exactly one row for each loan of the
\* database whose member and whose book exist, no row for a loan whose
\* member or book is missing and no row of no loan; a loan whose member
\* has no program or faculty is returned, with a null faculty.
C19_OneRowPerLoan ==
    call.fn = "load_peminjaman_detail"
    => /\ call.exc = ""
       /\ \A i \in 1..Len(store.db.peminjaman) :
             LET p == store.db.peminjaman[i]
                 complete == /\ HasRow(store.db.anggota, "a.id_anggota", p["p.id_anggota"])
                             /\ HasRow(store.db.buku, "b.id_buku", p["p.id_buku"])
             IN  /\ Cardinality(RowsOfLoan(p["p.id_peminjaman"]))
                      = IF complete THEN 1 ELSE 0
                 /\ \A k \in RowsOfLoan(p["p.id_peminjaman"]) :
                       call.df.rows[k]["nama_fakultas"] = FacultyOf(p["p.id_anggota"])
       /\ \A k \in 1..Len(call.df.rows) :
             HasRow(store.db.peminjaman, "p.id_peminjaman",
                    call.df.rows[k]["id_peminjaman"])

\* The links of book ib to an author that exists, as places in the table
\* buku_pengarang.
AuthorLinks(ib) ==
    {i \in 1..Len(store.db.buku_pengarang) :
        /\ store.db.buku_pengarang[i]["bp.id_buku"] = ib
        /\ HasRow(store.db.pengarang, "pg.id_pengarang",
                  store.db.buku_pengarang[i]["bp.id_pengarang"])}

\* The code of the author of link i.
CodeOfLink(i) ==
    LET pg == store.db.pengarang
        k == CHOOSE m \in 1..Len(pg) :
                pg[m]["pg.id_pengarang"] = store.db.buku_pengarang[i]["bp.id_pengarang"]
    IN  pg[k]["pg.kode_pengarang"]

\* codes holds the codes of the authors of book ib, each link once, a link
\* at the place its urutan_pengarang has among the links of the book.
IsAuthorCodes(codes, ib) ==
    /\ Len(codes) = Cardinality(AuthorLinks(ib))
    /\ \A i \in AuthorLinks(ib) :
          codes[1 + Cardinality({j \in AuthorLinks(ib) :
                    store.db.buku_pengarang[j]["bp.urutan_pengarang"]
                      < store.db.buku_pengarang[i]["bp.urutan_pengarang"]})]
            = CodeOfLink(i)

Exported ==
    /\ render.page \in {"Peminjaman", "Anggota", "Buku"}
    /\ Shown("download_button")

\* C21: on the pages Peminjaman, Anggota and Buku the CSV offered for
\* download serializes the table the page displays, which is the table as
\* filtered: a header record of the table's columns in their order, then
\* one record for each row of the table, in the order of the rows,
\* whatever the filter and search selections.
C21_ExportIsView ==
    Exported
    => /\ render.shown = render.view
       /\ Len(render.csv) = Len(render.shown.rows) + 1
       /\ render.csv[1] = Columns(render.shown)
       /\ Tail(render.csv) = CsvRecords(render.shown, Columns(render.shown))

\* A run of the Peminjaman page whose selections keep one loan of two: the
\* CSV has the header and the record of that loan (the second of the table).
C21_Witness ==
    /\ Exported
    /\ render.page = "Peminjaman"
    /\ Len(render.base.rows) = 2
    /\ Len(render.view.rows) = 1
    /\ render.inputs.fakultas # Semua
    /\ Len(render.csv) = 2
    /\ render.csv[1][1] = "id_peminjaman"
    /\ render.csv[2][1] = "2"
    /\ render.view.rows[1]["id_peminjaman"] = 2

\* C22: the value a chart function returns has the shape its call site
\* consumes, on its normal path and on its empty path, so that no run of a
\* page that has built its table ends in the exception of unpacking a
\* chart function's result.
C22_ChartResultsUnpack ==
    ViewBuilt(render.page) => ~(render.status = "raised" /\ render.exc = "UnpackError")

\* C23: on the Peminjaman page, whatever the selections, the metric
\* "Jumlah peminjaman", the number of records of the exported CSV after
\* its header, and the sum of "jumlah" over the per-status counts of the
\* status chart all equal the number of rows of the filtered table.
C23_SummariesAgree ==
    FilterRan
    => /\ render.kpi = <<Len(render.view.rows)>>
       /\ Len(render.csv) - 1 = Len(render.view.rows)
       /\ SumJumlah(render.per_status) = Len(render.view.rows)

\* A run whose selections keep one loan of two, a loan still out: the
\* metric shows 1, the CSV has one record, and the status chart is handed
\* one loan "Sedang dipinjam".
C23_Witness ==
    /\ FilterRan
    /\ Len(render.base.rows) = 2
    /\ render.inputs.status_peminjaman = "Sedang dipinjam"
    /\ render.kpi = <<1>>
    /\ Len(render.csv) = 2
    /\ Len(render.per_status.rows) = 1
    /\ render.per_status.rows[1]["status_peminjaman"] = "Sedang dipinjam"
    /\ render.per_status.rows[1]["jumlah"] = 1

\* The last run of the Peminjaman page had every widget at its default:
\* the range from the earliest to the latest loan day of the base table,
\* "(Semua)" in the five boxes.
DefaultSelection ==
    /\ render.page = "Peminjaman"
    /\ render.inputs # <<>>
    /\ ChangedPeminjaman(render.base, render.inputs) = {}

\* C24: with the default selection on the Peminjaman page the filter is
\* the identity on the set of rows: the filtered table holds every row of
\* the base table exactly once and no other row.
C24_DefaultKeepsAll ==
    DefaultSelection
    => /\ FilterRan
       /\ Len(render.view.rows) = Len(render.base.rows)
       /\ \A i \in 1..Len(render.base.rows) :
             Cardinality({j \in 1..Len(render.view.rows) :
                             render.view.rows[j] = render.base.rows[i]}) = 1
       /\ \A j \in 1..Len(render.view.rows) :
             \E i \in 1..Len(render.base.rows) :
                render.view.rows[j] = render.base.rows[i]

\* A default run over two loans of different days, the later one made in
\* the afternoon of the last day of the range: both are kept.
C24_Witness ==
    /\ DefaultSelection
    /\ FilterRan
    /\ Len(render.base.rows) = 2
    /\ \E i \in 1..2 :
          /\ render.base.rows[i]["tgl_pinjam"] % 100 = 13
          /\ DtDate(render.base.rows[i]["tgl_pinjam"]) = MaxDate(render.base)
          /\ MinDate(render.base) < MaxDate(render.base)
    /\ Len(render.view.rows) = 2

=============================================================================
